---- MODULE Spec2Model ----
(***************************************************************************)
(* A model of the academic-assistant document pipeline: the PDF text       *)
(* extractor with its fallbacks, the text cleaner, the chunker, the        *)
(* in-memory document store with its localStorage snapshot, and the chat   *)
(* handler with its predefined-answer pre-filter.                          *)
(*                                                                         *)
(* A JavaScript string is modelled as a sequence of one-character strings. *)
(* The scanning operators below jump from match to match instead of        *)
(* walking character by character, so that texts longer than one           *)
(* extractor page (1500 characters) can be evaluated.                      *)
(***************************************************************************)
EXTENDS Integers, Sequences, FiniteSets, TLC

\* ------------------------------------------------------------------------
\* Characters
\* ------------------------------------------------------------------------

LowerChars == {"a", "b", "c", "d", "e", "f", "g", "h", "i", "j", "k", "l", "m",
               "n", "o", "p", "q", "r", "s", "t", "u", "v", "w", "x", "y", "z"}

UpperChars == {"A", "B", "C", "D", "E", "F", "G", "H", "I", "J", "K", "L", "M",
               "N", "O", "P", "Q", "R", "S", "T", "U", "V", "W", "X", "Y", "Z"}

DigitChars == {"0", "1", "2", "3", "4", "5", "6", "7", "8", "9"}

\* The regular-expression class \w.
WordChars == LowerChars \cup UpperChars \cup DigitChars \cup {"_"}

\* The regular-expression class \s (and what String.prototype.trim removes).
WsChars == {" ", "\n", "\t", "\r"}

\* The class [ \t].
BlankChars == {" ", "\t"}

\* The sentence terminators [.!?].
TermChars == {".", "!", "?"}

\* The class [,.;:!?].
PunctChars == {",", ".", ";", ":", "!", "?"}

\* The horizontal ellipsis U+2026, one character.
Ellipsis == "U+2026"

\* ------------------------------------------------------------------------
\* String primitives
\* ------------------------------------------------------------------------

\* The first index j >= i with s[j] in C, or Len(s) + 1.
FirstIn(s, i, C) ==
    IF \E j \in i..Len(s) : s[j] \in C
    THEN CHOOSE j \in i..Len(s) : s[j] \in C /\ \A k \in i..(j - 1) : s[k] \notin C
    ELSE Len(s) + 1

\* The first index j >= i with s[j] not in C, or Len(s) + 1.
FirstNotIn(s, i, C) ==
    IF \E j \in i..Len(s) : s[j] \notin C
    THEN CHOOSE j \in i..Len(s) : s[j] \notin C /\ \A k \in i..(j - 1) : s[k] \in C
    ELSE Len(s) + 1

\* The last index j with s[j] not in C, or 0.
LastNotIn(s, C) ==
    IF \E j \in 1..Len(s) : s[j] \notin C
    THEN CHOOSE j \in 1..Len(s) : s[j] \notin C /\ \A k \in (j + 1)..Len(s) : s[k] \in C
    ELSE 0

\* String.prototype.trim
Trim(s) == SubSeq(s, FirstNotIn(s, 1, WsChars), LastNotIn(s, WsChars))

\* The characters of a string literal, as the text of a JavaScript string.
Chars(str) == [i \in 1..Len(str) |-> SubSeq(str, i, i)]

\* String.prototype.substring(0, n): the first n characters, or all of s.
Prefix(s, n) == SubSeq(s, 1, IF n < Len(s) THEN n ELSE Len(s))

\* String.prototype.includes
Includes(s, sub) ==
    \E i \in 0..(Len(s) - Len(sub)) : SubSeq(s, i + 1, i + Len(sub)) = sub

\* s.split(/[C]+/) from index i on: the pieces between the maximal runs of
\* characters of C, with an empty piece where s starts or ends with a run.
RECURSIVE SplitFrom(_, _, _)
SplitFrom(s, i, C) ==
    LET j == FirstIn(s, i, C)
    IN  IF j > Len(s)
        THEN << SubSeq(s, i, Len(s)) >>
        ELSE << SubSeq(s, i, j - 1) >> \o SplitFrom(s, FirstNotIn(s, j, C), C)

Split(s, C) == SplitFrom(s, 1, C)

\* Array.prototype.join
RECURSIVE Join(_, _)
Join(parts, sep) ==
    IF Len(parts) = 0 THEN << >>
    ELSE IF Len(parts) = 1 THEN parts[1]
    ELSE parts[1] \o sep \o Join(Tail(parts), sep)

\* A string of n copies of the character c.
Rep(c, n) == [i \in 1..n |-> c]

\* ------------------------------------------------------------------------
\* TextProcessor: global regular-expression replacements
\*
\* A replacement rule is a record; r.k names the shape of its pattern:
\*   "lit"    a literal string                          -> r.rep
\*   "run"    a maximal run of >= r.min characters of r.set -> r.rep
\*   "gap"    (r.left) whitespace (r.right)             -> $1 r.sep $2
\*            r.ws says how much whitespace the pattern takes:
\*            "some" is \s+, "any" is \s*, "none" is no whitespace
\*   "before" \s+([,.;:!?])                              -> $1
\*   "hyphen" (\w)-\s*\n\s*(\w)                          -> $1$2
\*   "trail"  [ \t]+$ under the m flag                   -> empty
\* ------------------------------------------------------------------------

Lit(pat, rep) == [k |-> "lit", pat |-> pat, rep |-> rep]
Run(set, min, rep) == [k |-> "run", set |-> set, min |-> min, rep |-> rep]
Gap(left, ws, right, sep) == [k |-> "gap", left |-> left, ws |-> ws, right |-> right, sep |-> sep]

\* The length of the match of rule r that starts at index j of s; 0 when
\* the pattern does not match there.
MatchLen(r, s, j) ==
    CASE r.k = "lit" ->
           IF j + Len(r.pat) - 1 <= Len(s) /\ SubSeq(s, j, j + Len(r.pat) - 1) = r.pat
           THEN Len(r.pat) ELSE 0
      [] r.k = "run" ->
           IF s[j] \in r.set /\ FirstNotIn(s, j, r.set) - j >= r.min
           THEN FirstNotIn(s, j, r.set) - j ELSE 0
      [] r.k = "gap" ->
           IF s[j] \in r.left /\ j < Len(s)
           THEN LET e == IF r.ws = "none" THEN j + 1 ELSE FirstNotIn(s, j + 1, WsChars)
                IN  IF /\ e <= Len(s)
                       /\ s[e] \in r.right
                       /\ (r.ws = "some" => e > j + 1)
                    THEN e - j + 1 ELSE 0
           ELSE 0
      [] r.k = "before" ->
           IF s[j] \in WsChars
           THEN LET e == FirstNotIn(s, j, WsChars)
                IN  IF e <= Len(s) /\ s[e] \in PunctChars THEN e - j + 1 ELSE 0
           ELSE 0
      [] r.k = "hyphen" ->
           IF s[j] \in WordChars /\ j + 2 <= Len(s) /\ s[j + 1] = "-"
           THEN LET e == FirstNotIn(s, j + 2, WsChars)
                IN  IF /\ e <= Len(s)
                       /\ s[e] \in WordChars
                       /\ \E n \in (j + 2)..(e - 1) : s[n] = "\n"
                    THEN e - j + 1 ELSE 0
           ELSE 0
      [] r.k = "trail" ->
           IF s[j] \in BlankChars
           THEN LET e == FirstNotIn(s, j, BlankChars)
                IN  IF e > Len(s) \/ s[e] \in {"\n", "\r"} THEN e - j ELSE 0
           ELSE 0

\* What the match of length m at index j is replaced by.
Replacement(r, s, j, m) ==
    CASE r.k \in {"lit", "run"} -> r.rep
      [] r.k = "gap"    -> << s[j] >> \o r.sep \o << s[j + m - 1] >>
      [] r.k = "before" -> << s[j + m - 1] >>
      [] r.k = "hyphen" -> << s[j], s[j + m - 1] >>
      [] r.k = "trail"  -> << >>

\* s.replace(/pattern/g, replacement) from index i on: the leftmost match
\* is replaced and the scan resumes behind it (matches never overlap).
RECURSIVE ReplaceFrom(_, _, _)

\* The text from index i on with the match of length m at index j replaced.
ReplaceAt(r, s, i, j, m) ==
    SubSeq(s, i, j - 1) \o Replacement(r, s, j, m) \o ReplaceFrom(r, s, j + m)

ReplaceFrom(r, s, i) ==
    IF \E p \in i..Len(s) : MatchLen(r, s, p) > 0
    THEN ReplaceAt(r, s, i,
                   CHOOSE p \in i..Len(s) :
                       /\ MatchLen(r, s, p) > 0
                       /\ \A n \in i..(p - 1) : MatchLen(r, s, n) = 0,
                   MatchLen(r, s, CHOOSE p \in i..Len(s) :
                                      /\ MatchLen(r, s, p) > 0
                                      /\ \A n \in i..(p - 1) : MatchLen(r, s, n) = 0))
    ELSE SubSeq(s, i, Len(s))

ReplaceAll(r, s) == ReplaceFrom(r, s, 1)

\* The rules of a list applied one after the other. (The result of each
\* rule is bound as a value before the next rule reads it.)
RECURSIVE ApplyRules(_, _)
ApplyRules(rules, s) ==
    IF rules = << >> THEN s
    ELSE CHOOSE out \in { ApplyRules(Tail(rules), t) : t \in { ReplaceAll(Head(rules), s) } } : TRUE

\* ------------------------------------------------------------------------
\* TextProcessor
\*
\* The cleaning stages are exact on texts over TextAlphabet. The rules of
\* the source whose patterns need a character outside it (mis-encoded
\* multi-byte sequences, ligatures, Greek letters, typographic quotes and
\* dashes, bullets, "@" and "/") never match such a text and are left out.
\* ------------------------------------------------------------------------

TextAlphabet ==
    WordChars \cup WsChars \cup PunctChars \cup {"(", ")", "-", "+", "*", "/", Ellipsis}

\* String.prototype.normalize('NFKC') replaces U+2026 by three full stops;
\* the patterns of encodingFixes match no character of TextAlphabet.
fixEncodingIssues(text) ==
    ReplaceAll(Lit(<< Ellipsis >>, << ".", ".", "." >>), text)

\* The entries of commonOCRErrors in the Map's iteration order.
commonOCRErrors ==
    << Lit(<<"r", "n">>, <<"m">>),
       Lit(<<"v", "v">>, <<"w">>),
       Lit(<<"c", "l">>, <<"d">>),
       Lit(<<"I", "I">>, <<"l", "l">>),
       Lit(<<"1", "l">>, <<"l", "l">>),
       Lit(<<"0">>, <<"O">>),
       Lit(<<"5">>, <<"S">>),
       Lit(<<"8">>, <<"B">>),
       Lit(<<"6">>, <<"G">>),
       Lit(<<"1">>, <<"I">>),
       Lit(<<"2">>, <<"Z">>),
       Lit(<<" ", " ">>, <<" ">>),
       Lit(<<" ", " ", " ">>, <<" ">>),
       Lit(<<"\t">>, <<" ">>),
       Lit(<<" ", "\n">>, <<"\n">>),
       Lit(<<"\n", " ">>, <<"\n">>) >>

wordFixes ==
    << [k |-> "hyphen"],
       Gap(WordChars, "some", WordChars, << >>),
       [k |-> "before"],
       Gap(TermChars, "any", UpperChars, << " " >>),
       Gap(DigitChars, "some", DigitChars, << >>) >>

correctOCRErrors(text) == ApplyRules(wordFixes, ApplyRules(commonOCRErrors, text))

normalizeWhitespace(text) ==
    Trim(ApplyRules(<< Run(BlankChars, 1, << " " >>),
                       Lit(<<"\r", "\n">>, <<"\n">>),
                       Lit(<<"\r">>, <<"\n">>),
                       Run({"\n"}, 3, << "\n", "\n" >>),
                       [k |-> "trail"] >>, text))

standardizeFormatting(text) ==
    ApplyRules(<< Run({"."}, 3, << Ellipsis >>),
                  [k |-> "before"],
                  Gap(TermChars, "none", UpperChars, << " " >>),
                  Run({"."}, 4, << ".", ".", "." >>),
                  Run({"!"}, 2, << "!" >>),
                  Run({"?"}, 2, << "?" >>) >>, text)

\* processText under the options quickClean passes (every cleaning stage
\* on, no acronym expansion, no structure extraction): the cleaned text.
quickClean(text) ==
    standardizeFormatting(normalizeWhitespace(correctOCRErrors(fixEncodingIssues(text))))

\* ------------------------------------------------------------------------
\* pdfRestExtractor
\* ------------------------------------------------------------------------

\* maxPageLength of parseTextIntoPages and avgCharsPerPage of estimatePageCount.
maxPageLength == 1500
avgCharsPerPage == 1500

\* The page cap of parseTextIntoPages.
maxParsedPages == 10

NoTextContent ==
    << "N", "o", " ", "t", "e", "x", "t", " ", "c", "o", "n", "t", "e", "n", "t", " ", "e", "x", "t",
       "r", "a", "c", "t", "e", "d", "." >>

NoReadableContent ==
    << "D", "o", "c", "u", "m", "e", "n", "t", " ", "p", "r", "o", "c", "e", "s", "s", "e", "d", " ",
       "b", "u", "t", " ", "n", "o", " ", "r", "e", "a", "d", "a", "b", "l", "e", " ", "c", "o", "n",
       "t", "e", "n", "t", " ", "e", "x", "t", "r", "a", "c", "t", "e", "d", "." >>

\* The word loop of parseTextIntoPages from words[i] on, with the pages
\* pushed so far and the page being filled; the loop ends behind the last
\* word or once maxParsedPages pages are pushed, and the rest of the page
\* being filled is pushed behind it.
RECURSIVE ParseWords(_, _, _, _)
ParseWords(words, i, pages, currentPage) ==
    IF i > Len(words)
    THEN IF Len(Trim(currentPage)) > 0 THEN Append(pages, Trim(currentPage)) ELSE pages
    ELSE LET word == words[i]
             full == Len(currentPage) + Len(word) + 1 > maxPageLength
             pages1 == IF ~full THEN pages
                       ELSE IF Len(Trim(currentPage)) > 0
                            THEN Append(pages, Trim(currentPage))
                            ELSE Append(pages, word)
             page1 == IF ~full
                      THEN currentPage \o (IF Len(currentPage) > 0 THEN << " " >> ELSE << >>) \o word
                      ELSE IF Len(Trim(currentPage)) > 0 THEN word \o << " " >> ELSE << >>
         IN  IF Len(pages1) >= maxParsedPages
             THEN IF Len(Trim(page1)) > 0 THEN Append(pages1, Trim(page1)) ELSE pages1
             ELSE ParseWords(words, i + 1, pages1, page1)

\* The pages of parseTextIntoPages numbered from 1, one page that says so
\* when there is none.
NumberedPages(pages) ==
    IF Len(pages) = 0
    THEN << [page |-> 1, text |-> Trim(NoReadableContent)] >>
    ELSE [n \in 1..Len(pages) |-> [page |-> n, text |-> Trim(pages[n])]]

parseTextIntoPages(fullText) ==
    IF Len(Trim(fullText)) = 0
    THEN << [page |-> 1, text |-> NoTextContent] >>
    ELSE NumberedPages(IF Len(fullText) <= maxPageLength
                       THEN << Trim(fullText) >>
                       ELSE ParseWords(Split(fullText, WsChars), 1, << >>, << >>))

\* Math.max(1, Math.ceil(text.length / avgCharsPerPage)); 1 for no text.
estimatePageCount(text) ==
    IF Len(text) = 0 THEN 1
    ELSE IF Len(text) <= avgCharsPerPage THEN 1
    ELSE (Len(text) + avgCharsPerPage - 1) \div avgCharsPerPage

\* The decimal digits of a natural number.
RECURSIVE DigitsOf(_)
DigitsOf(n) ==
    LET d == << "0", "1", "2", "3", "4", "5", "6", "7", "8", "9" >>
    IN  IF n < 10 THEN << d[n + 1] >> ELSE DigitsOf(n \div 10) \o << d[(n % 10) + 1] >>

\* (file.size / (1024 * 1024)).toFixed(2)
SizeInMB(size) ==
    LET mb == 1024 * 1024
        h == (size \div mb) * 100 + ((size % mb) * 200 + mb) \div (2 * mb)
    IN  DigitsOf(h \div 100) \o << "." >> \o DigitsOf((h % 100) \div 10) \o DigitsOf(h % 10)

\* new Date().toLocaleString() at the time of the upload.
UploadTime ==
    << "1", "/", "1", "/", "2", "0", "2", "5", ",", " ", "1", "2", ":", "0", "0", ":", "0", "0", " ",
       "A", "M" >>

\* generateDocumentMetadata: the heading lines with the file's name, size
\* and upload time and the first sentence of the note; the fixed prose that
\* follows it in the template is not carried along.
generateDocumentMetadata(file) ==
    << "D", "o", "c", "u", "m", "e", "n", "t", " ", "I", "n", "f", "o", "r", "m", "a", "t", "i", "o",
       "n", ":", "\n", "\n", "F", "i", "l", "e", " ", "N", "a", "m", "e", ":", " " >>
    \o file.name \o
    << "\n", "F", "i", "l", "e", " ", "S", "i", "z", "e", ":", " " >>
    \o SizeInMB(file.size) \o
    << " ", "M", "B", "\n", "U", "p", "l", "o", "a", "d", " ", "T", "i", "m", "e", ":", " " >>
    \o UploadTime \o
    << "\n", "F", "i", "l", "e", " ", "T", "y", "p", "e", ":", " ", "P", "D", "F", " ", "D", "o", "c",
       "u", "m", "e", "n", "t", "\n", "\n", "N", "o", "t", "e", ":", " ", "T", "h", "i", "s", " ",
       "d", "o", "c", "u", "m", "e", "n", "t", " ", "h", "a", "s", " ", "b", "e", "e", "n", " ", "u",
       "p", "l", "o", "a", "d", "e", "d", " ", "s", "u", "c", "c", "e", "s", "s", "f", "u", "l", "l",
       "y", ",", " ", "b", "u", "t", " ", "d", "e", "t", "a", "i", "l", "e", "d", " ", "t", "e", "x",
       "t", " ", "e", "x", "t", "r", "a", "c", "t", "i", "o", "n", " ", "w", "a", "s", " ", "n", "o",
       "t", " ", "p", "o", "s", "s", "i", "b", "l", "e", " ", "u", "s", "i", "n", "g", " ", "t", "h",
       "e", " ", "c", "u", "r", "r", "e", "n", "t", " ", "m", "e", "t", "h", "o", "d", "." >>

\* The file size above which fallbackTextExtraction reads no bytes.
fallbackSizeLimit == 5 * 1024 * 1024

\* fallbackTextExtraction keeps the text it found when it is longer than
\* minFoundText, cuts it at maxFoundText and uses it when it has at least
\* minExtractedText characters.
minFoundText == 50
maxFoundText == 2000
minExtractedText == 100

\* A result that holds a fixed placeholder text in place of the metadata.
placeholderResult(file) ==
    [success |-> TRUE,
     fullText |-> NoTextContent,
     pages |-> << [page |-> 1, text |-> NoTextContent] >>,
     pageCount |-> 1]

\* A PDFRestExtractResponse that holds only the metadata text of the file.
MetadataResult(file) ==
    [success |-> TRUE,
     fullText |-> generateDocumentMetadata(file),
     pages |-> << [page |-> 1, text |-> generateDocumentMetadata(file)] >>,
     pageCount |-> 1]

\* A PDFRestExtractResponse of a text split into pages; apiPageCount is the
\* pageCount field of the API's answer, 0 when it has none.
TextResult(fullText, apiPageCount) ==
    [success |-> TRUE,
     fullText |-> fullText,
     pages |-> parseTextIntoPages(fullText),
     pageCount |-> IF apiPageCount # 0 THEN apiPageCount ELSE estimatePageCount(fullText)]

FailedResult == [success |-> FALSE, fullText |-> << >>, pages |-> << >>, pageCount |-> 0]

\* extractTextFromPDF, on the answer resp of the PDFRest API:
\*   resp.kind = "cors"       fetch throws (the browser blocks the request)
\*               "httpError"  response.ok is false
\*               "outputUrl"  the answer names an output URL whose text is resp.text
\*               "direct"     the answer holds resp.text as extractedText or fullText
\*               "pages"      the answer holds the page list resp.pages
\*               "unexpected" the answer holds none of these
\*   resp.pageCount is the answer's pageCount field, 0 when absent.
extractTextFromPDF(resp) ==
    IF resp.kind \in {"cors", "httpError"} THEN FailedResult
    ELSE IF resp.kind = "outputUrl" THEN TextResult(resp.text, resp.pageCount)
    ELSE IF resp.kind = "direct" /\ resp.text # << >> THEN TextResult(resp.text, resp.pageCount)
    ELSE IF resp.kind = "pages"
    THEN LET pages == [n \in 1..Len(resp.pages) |->
                          [page |-> IF resp.pages[n].pageNumber # 0
                                    THEN resp.pages[n].pageNumber ELSE 1,
                           text |-> resp.pages[n].text]]
         IN  [success |-> TRUE,
              fullText |-> Join([n \in 1..Len(pages) |-> pages[n].text], << "\n", "\n" >>),
              pages |-> pages,
              pageCount |-> Len(pages)]
    ELSE FailedResult

\* The result of fallbackTextExtraction for the text it settles on.
FallbackResult(extractedText) ==
    [success |-> TRUE,
     fullText |-> extractedText,
     pages |-> parseTextIntoPages(extractedText),
     pageCount |-> estimatePageCount(extractedText)]

\* The text fallbackTextExtraction settles on, given the cleaned text of
\* the byte scan: the metadata when that text is too short.
FallbackText(file, found) ==
    IF Len(found) < minExtractedText THEN generateDocumentMetadata(file) ELSE found

\* fallbackTextExtraction, on a file whose bytes are described by
\*   file.readable  file.arrayBuffer() resolves
\*   file.header    the bytes start with %PDF
\*   file.found     foundText, the readable words the byte scan collects
fallbackTextExtraction(file) ==
    IF file.size > fallbackSizeLimit THEN MetadataResult(file)
    ELSE IF ~file.readable \/ ~file.header THEN MetadataResult(file)
    ELSE FallbackResult(FallbackText(file,
             IF Len(file.found) > minFoundText
             THEN Prefix(Trim(ReplaceAll(Run(WsChars, 1, << " " >>), file.found)), maxFoundText)
             ELSE << >>))

\* The last check of extractTextWithFallback on the extraction result.
EnsureContent(file, result) ==
    IF result.fullText = << >> \/ result.pages = << >>
    THEN [fullText |-> generateDocumentMetadata(file),
          pages |-> << [page |-> 1, text |-> generateDocumentMetadata(file)] >>,
          pageCount |-> 1]
    ELSE [fullText |-> result.fullText,
          pages |-> result.pages,
          pageCount |-> IF result.pageCount # 0 THEN result.pageCount ELSE Len(result.pages)]

\* The result of the API, or of the fallback when the API failed.
ApiOrFallback(file, api) == IF ~api.success THEN fallbackTextExtraction(file) ELSE api

\* extractTextWithFallback. Neither extractTextFromPDF nor
\* fallbackTextExtraction lets an exception out, so the two catch blocks
\* of the source are not reached.
extractTextWithFallback(file, resp) ==
    EnsureContent(file, ApiOrFallback(file, extractTextFromPDF(resp)))

\* ------------------------------------------------------------------------
\* PDFProcessor: the chunker
\* ------------------------------------------------------------------------

\* The default maxChunkSize of createTextChunks.
defaultMaxChunkSize == 500

\* page.text.split(/[.!?]+/).filter(s => s.trim().length > 0)
RECURSIVE NonBlank(_)
NonBlank(parts) ==
    IF parts = << >> THEN << >>
    ELSE (IF Len(Trim(Head(parts))) > 0 THEN << Head(parts) >> ELSE << >>)
         \o NonBlank(Tail(parts))

Sentences(text) == NonBlank(Split(text, TermChars))

\* chunks.push with chunkIndex in place of chunkIndex++.
pushWithoutCount(acc, currentChunk, pageNumber) ==
    [chunks |-> Append(acc.chunks, [content |-> Trim(currentChunk),
                                    page |-> pageNumber,
                                    chunkIndex |-> acc.chunkIndex]),
     chunkIndex |-> acc.chunkIndex]

\* chunks.push({content: currentChunk.trim(), page, chunkIndex: chunkIndex++})
\* on the accumulator acc = [chunks, chunkIndex].
PushChunk(acc, currentChunk, pageNumber) ==
    [chunks |-> Append(acc.chunks, [content |-> Trim(currentChunk),
                                    page |-> pageNumber,
                                    chunkIndex |-> acc.chunkIndex]),
     chunkIndex |-> acc.chunkIndex + 1]

\* The sentence loop of createTextChunks for one page, from sentences[i]
\* on, and the push of the last chunk of the page behind it.
RECURSIVE ChunkSentences(_, _, _, _, _, _)
ChunkSentences(sentences, i, currentChunk, acc, pageNumber, maxChunkSize) ==
    IF i > Len(sentences)
    THEN IF Len(Trim(currentChunk)) > 0 THEN PushChunk(acc, currentChunk, pageNumber) ELSE acc
    ELSE LET trimmedSentence == Trim(sentences[i])
         IN  IF Len(trimmedSentence) = 0
             THEN ChunkSentences(sentences, i + 1, currentChunk, acc, pageNumber, maxChunkSize)
             ELSE IF /\ Len(currentChunk) + Len(trimmedSentence) > maxChunkSize
                     /\ Len(currentChunk) > 0
                  THEN ChunkSentences(sentences, i + 1, trimmedSentence \o << ".", " " >>,
                                      PushChunk(acc, currentChunk, pageNumber),
                                      pageNumber, maxChunkSize)
                  ELSE ChunkSentences(sentences, i + 1,
                                      currentChunk \o trimmedSentence \o << ".", " " >>,
                                      acc, pageNumber, maxChunkSize)

\* The page loop of createTextChunks from pages[p] on.
RECURSIVE ChunkPages(_, _, _, _)
ChunkPages(pages, p, acc, maxChunkSize) ==
    IF p > Len(pages) THEN acc
    ELSE IF Len(pages[p].text) = 0 THEN ChunkPages(pages, p + 1, acc, maxChunkSize)
    ELSE ChunkPages(pages, p + 1,
                    ChunkSentences(Sentences(pages[p].text), 1, << >>, acc,
                                   pages[p].page, maxChunkSize),
                    maxChunkSize)

createTextChunks(pages, maxChunkSize) ==
    ChunkPages(pages, 1, [chunks |-> << >>, chunkIndex |-> 0], maxChunkSize).chunks

\* ------------------------------------------------------------------------
\* The uploaded files and the answers of the extraction API
\* ------------------------------------------------------------------------

\* The number of documents one run uploads past validation.
MaxDocs == 2

PdfType == "application/pdf"

\* A File: its name, MIME type and size, and what fallbackTextExtraction
\* finds in its bytes.
File(name, type, size, readable, header, found) ==
    [name |-> name, type |-> type, size |-> size,
     readable |-> readable, header |-> header, found |-> found]

PdfName == <<"a", ".", "p", "d", "f">>

\* Three words of 3, 1497 and 3 characters: 1505 characters of text.
LongText == Rep("a", 3) \o << " " >> \o Rep("a", 1497) \o << " " >> \o Rep("a", 3)

SmallPdf == File(PdfName, PdfType, 1024, TRUE, TRUE, << >>)
\* Two words of 60 characters.
ShortText == Rep("a", 60) \o << " " >> \o Rep("b", 60)

ScannedPdf == File(PdfName, PdfType, 2048, TRUE, TRUE, ShortText)
LongScannedPdf == File(PdfName, PdfType, 4096, TRUE, TRUE, LongText)
BrokenPdf == File(PdfName, PdfType, 512, TRUE, FALSE, << >>)
UnreadablePdf == File(PdfName, PdfType, 3072, FALSE, TRUE, << >>)
LargePdf == File(PdfName, PdfType, 6 * 1024 * 1024, TRUE, TRUE, << >>)
HugePdf == File(PdfName, PdfType, 11 * 1024 * 1024, TRUE, TRUE, << >>)
TextFile == File(<<"a", ".", "t", "x", "t">>, "text/plain", 1024, TRUE, TRUE, << >>)

\* The files uploaded to the store, and the files put to the extraction.
Files == {SmallPdf, ScannedPdf, HugePdf, TextFile}
ExtractionFiles == {SmallPdf, ScannedPdf, LongScannedPdf, BrokenPdf, UnreadablePdf, LargePdf}

\* An answer of the PDFRest API (see extractTextFromPDF). strings is FALSE
\* when the page list holds a text that is not a JSON string.
Response(kind, text, pageCount, pages, strings) ==
    [kind |-> kind, text |-> text, pageCount |-> pageCount, pages |-> pages, strings |-> strings]

ApiPage(pageNumber, text) == [pageNumber |-> pageNumber, text |-> text]

Responses ==
    { Response("cors", << >>, 0, << >>, TRUE),
      Response("httpError", << >>, 0, << >>, TRUE),
      Response("unexpected", << >>, 0, << >>, TRUE),
      Response("outputUrl", << >>, 0, << >>, TRUE),
      Response("direct", <<"a", "b", "c", ".", " ", "d", "e", "f", ".">>, 0, << >>, TRUE),
      Response("direct", <<"a", " ", "b", ".">>, 3, << >>, TRUE),
      Response("direct", <<".">>, 0, << >>, TRUE),
      Response("direct", <<"c", "+", "+", " ", "i", "s", " ", "f", "a", "s", "t", ".">>, 0, << >>, TRUE),
      Response("pages", << >>, 0, << ApiPage(1, <<"x", ".", " ", "y", "!">>), ApiPage(2, << >>) >>, TRUE),
      Response("pages", << >>, 0, << ApiPage(1, << >>), ApiPage(2, << >>) >>, TRUE),
      Response("pages", << >>, 0, << ApiPage(1, <<"5">>) >>, FALSE) }

\* ------------------------------------------------------------------------
\* PDFProcessor: the document store, and the api module over it
\* ------------------------------------------------------------------------

VARIABLES
    documents,    \* PDFProcessor.documents: the Map's values in insertion order
    storage,      \* localStorage[STORAGE_KEY]: the document list saved last
    tasks,        \* the processFile calls waiting on extractTextWithFallback
    nextId,       \* the number of ids processFile has drawn
    result,       \* what the api call that returned last gave its caller
    processed,    \* ProcessedDocuments, worked out once at the start
    requireDefined, \* the build gives pdfProcessor.ts a require function
    call,         \* the arguments of the function a function run applies
    user,         \* App: authState.user is set
    questionsAsked, \* UsageTracker: stats.questionsAsked of the user
    showUpgradePrompt, \* App: the upgrade prompt is shown
    messages,     \* App: the messages state
    pending,      \* App: the questions handleSendMessage awaits api.askQuestion for
    faqItems,     \* FAQSystem.faqItems
    questionHistory, \* FAQSystem.questionHistory, the newest entry first
    now,          \* the clock the FAQSystem reads with new Date()
    uiDocuments,  \* App: the documents state
    uploads,      \* App: the handleUpload calls under way, each at its await
    loads,        \* App: the loadDocuments calls waiting for api.getDocuments
    documentsProcessed \* UsageTracker: stats.documentsProcessed of the user

\* The state of the chat of the App component.
chatVars == << user, questionsAsked, showUpgradePrompt, messages, pending >>

\* The state of the FAQSystem.
faqVars == << faqItems, questionHistory, now >>

\* The document list of the App component and the calls that set it.
uiVars == << uiDocuments, uploads, loads, documentsProcessed >>

NoCall == [fn |-> "none"]

DocIds(docs) == { docs[n].id : n \in 1..Len(docs) }

\* Map.prototype.get
getDocument(docs, id) == CHOOSE d \in { docs[n] : n \in 1..Len(docs) } : d.id = id

\* Map.prototype.set: a present key keeps its place, a new key goes last.
SetDocument(docs, doc) ==
    IF doc.id \in DocIds(docs)
    THEN [n \in 1..Len(docs) |-> IF docs[n].id = doc.id THEN doc ELSE docs[n]]
    ELSE Append(docs, doc)

\* Map.prototype.delete
RECURSIVE RemoveDocument(_, _)
RemoveDocument(docs, id) ==
    IF docs = << >> THEN << >>
    ELSE (IF Head(docs).id = id THEN << >> ELSE << Head(docs) >>) \o RemoveDocument(Tail(docs), id)

\* The document processFile inserts before it starts the extraction.
ProcessingDocument(id, file) ==
    [id |-> id, name |-> file.name, size |-> file.size, status |-> "processing",
     pageCount |-> 0, pages |-> << >>, chunks |-> << >>, fullText |-> << >>]

\* page.text.split is not a function: createTextChunks throws on a page
\* whose text is no string, which quickClean hands back as it came
\* (processText catches its own exception and returns the original).
ProcessFileThrows(resp) == resp.kind = "pages" /\ ~resp.strings

\* The document processFile stores when the extraction has answered.
\* pages.map(page => ({...page, text: TextProcessor.quickClean(page.text)}))
CleanedPages(pages) ==
    [n \in 1..Len(pages) |-> [page |-> pages[n].page, text |-> quickClean(pages[n].text)]]

\* The 'ready' document of processFile.
ReadyDocument(id, file, extractedData, cleanedPages) ==
    [id |-> id, name |-> file.name, size |-> file.size, status |-> "ready",
     pageCount |-> extractedData.pageCount,
     pages |-> cleanedPages,
     chunks |-> createTextChunks(cleanedPages, defaultMaxChunkSize),
     fullText |-> extractedData.fullText]

\* processFile behind the extraction.
ProcessExtracted(id, file, extractedData) ==
    ReadyDocument(id, file, extractedData, CleanedPages(extractedData.pages))

ProcessedDocument(id, file, resp) ==
    IF ProcessFileThrows(resp)
    THEN [ProcessingDocument(id, file) EXCEPT !.status = "error"]
    ELSE ProcessExtracted(id, file, extractTextWithFallback(file, resp))

\* loadDocumentsFromStorage: every stored document with status 'ready' is
\* set in the processor again. JSON.stringify and JSON.parse give back the
\* fields kept here as they were (strings, numbers, lists of them).
RECURSIVE RestoreDocuments(_, _)
RestoreDocuments(docs, stored) ==
    IF stored = << >> THEN docs
    ELSE RestoreDocuments(IF Head(stored).status = "ready"
                          THEN SetDocument(docs, Head(stored)) ELSE docs,
                          Tail(stored))

\* loadDocumentsFromStorage without its test of the status: every stored
\* document is set in the processor again.
RECURSIVE restoreEveryStatus(_, _)
restoreEveryStatus(docs, stored) ==
    IF stored = << >> THEN docs
    ELSE restoreEveryStatus(SetDocument(docs, Head(stored)), Tail(stored))

loadDocumentsFromStorage(docs, stored) == RestoreDocuments(docs, stored)

\* The Document of the api module for a ProcessedDocument.
ApiDocument(doc) ==
    [id |-> doc.id, name |-> doc.name, size |-> doc.size,
     status |-> doc.status, pageCount |-> doc.pageCount]

\* The merge of getDocuments: the stored documents, then the processor's
\* documents whose id is not among them.
RECURSIVE MergeDocuments(_, _)
MergeDocuments(allDocs, processorDocs) ==
    IF processorDocs = << >> THEN allDocs
    ELSE MergeDocuments(IF Head(processorDocs).id \in DocIds(allDocs)
                        THEN allDocs ELSE Append(allDocs, Head(processorDocs)),
                        Tail(processorDocs))

\* The size above which uploadDocument rejects a file.
uploadSizeLimit == 10 * 1024 * 1024

\* What an api call gives its caller, {error} or {data}, with the call:
\* a result with an error field is an {error}, every other one a {data}.
IsError(r) == "error" \in DOMAIN r
IsData(r) == r.op # "none" /\ ~IsError(r)
NoResult == [op |-> "none"]

\* The checks of uploadDocument without the check of the size.
uploadErrorOfTypeOnly(file) ==
    IF file.type # PdfType THEN "Please upload only PDF files" ELSE "none"

\* uploadDocument rejecting a file: its two checks before processFile.
uploadError(file) ==
    IF file.type # PdfType THEN "Please upload only PDF files"
    ELSE IF file.size > uploadSizeLimit THEN "File size must be less than 10MB"
    ELSE "none"

\* uploadDocument up to the await in processFile: the file is rejected, or
\* processFile draws an id, inserts the 'processing' document and starts
\* the extraction.
UploadDocument(file) ==
    IF uploadError(file) # "none"
    THEN /\ result' = [op |-> "uploadDocument", file |-> file.name, error |-> uploadError(file)]
         /\ UNCHANGED << documents, storage, tasks, nextId, processed, requireDefined >>
    ELSE /\ nextId < MaxDocs
         /\ documents' = SetDocument(documents, ProcessingDocument(nextId, file))
         /\ tasks' = tasks \cup { [id |-> nextId, file |-> file] }
         /\ nextId' = nextId + 1
         /\ UNCHANGED << storage, result, processed, requireDefined >>

\* The files uploadDocument hands to processFile.
AcceptedFiles == { file \in Files : uploadError(file) = "none" }

\* What processFile stores depends on the file and the answer alone.
ProcessedDocuments ==
    [file \in AcceptedFiles, resp \in Responses |-> ProcessedDocument(0, file, resp)]

\* processFile from the answer of the extraction on, and the rest of
\* uploadDocument behind it: the document is set 'ready' and every document
\* saved, or processFile throws, the document is set 'error' and
\* uploadDocument returns the error without saving.
ProcessFileResume(task, resp) ==
    LET doc == [processed[task.file, resp] EXCEPT !.id = task.id]
    IN  /\ task \in tasks
        /\ tasks' = tasks \ {task}
        /\ documents' = SetDocument(documents, doc)
        /\ IF doc.status = "ready"
           THEN /\ storage' = documents'
                /\ result' = [op |-> "uploadDocument", document |-> ApiDocument(doc)]
           ELSE /\ storage' = storage
                /\ result' = [op |-> "uploadDocument", id |-> task.id,
                               error |-> "Failed to process PDF"]
        /\ UNCHANGED << nextId, processed, requireDefined >>

\* getDocuments
GetDocuments ==
    /\ documents' = loadDocumentsFromStorage(documents, storage)
    /\ LET allDocs == MergeDocuments(storage, documents')
       IN  result' = [op |-> "getDocuments",
                      documents |-> [n \in 1..Len(allDocs) |-> ApiDocument(allDocs[n])]]
    /\ UNCHANGED << storage, tasks, nextId, processed, requireDefined >>

\* deleteDocument of the api module
DeleteDocument(id) ==
    LET success == id \in DocIds(documents)
    IN  /\ documents' = RemoveDocument(documents, id)
        /\ storage' = IF success THEN documents' ELSE storage
        /\ result' = [op |-> "deleteDocument", id |-> id, success |-> success]
        /\ UNCHANGED << tasks, nextId, processed, requireDefined >>

\* What getDocumentContent returns for the document of the id.
DocumentContent(id, doc) ==
    IF doc.status # "ready"
    THEN [op |-> "getDocumentContent", id |-> id, error |-> "Document not ready"]
    ELSE [op |-> "getDocumentContent", id |-> id,
          content |-> [n \in 1..Len(doc.pages) |->
                          [page |-> doc.pages[n].page, content |-> doc.pages[n].text]]]

\* getDocumentContent of the api module
GetDocumentContent(id) ==
    /\ result' = IF id \notin DocIds(documents)
                 THEN [op |-> "getDocumentContent", id |-> id, error |-> "Document not found"]
                 ELSE DocumentContent(id, getDocument(documents, id))
    /\ UNCHANGED << documents, storage, tasks, nextId, processed, requireDefined >>

\* ------------------------------------------------------------------------
\* PDFProcessor: the simple search and generateAnswer
\* ------------------------------------------------------------------------

LowerOf ==
    [c \in UpperChars |->
        CASE c = "A" -> "a"
          [] c = "B" -> "b"
          [] c = "C" -> "c"
          [] c = "D" -> "d"
          [] c = "E" -> "e"
          [] c = "F" -> "f"
          [] c = "G" -> "g"
          [] c = "H" -> "h"
          [] c = "I" -> "i"
          [] c = "J" -> "j"
          [] c = "K" -> "k"
          [] c = "L" -> "l"
          [] c = "M" -> "m"
          [] c = "N" -> "n"
          [] c = "O" -> "o"
          [] c = "P" -> "p"
          [] c = "Q" -> "q"
          [] c = "R" -> "r"
          [] c = "S" -> "s"
          [] c = "T" -> "t"
          [] c = "U" -> "u"
          [] c = "V" -> "v"
          [] c = "W" -> "w"
          [] c = "X" -> "x"
          [] c = "Y" -> "y"
          [] c = "Z" -> "z"]

\* String.prototype.toLowerCase
toLowerCase(s) == [i \in 1..Len(s) |-> IF s[i] \in UpperChars THEN LowerOf[s[i]] ELSE s[i]]

\* Some x of the list xs is a substring of s.
IncludesAny(s, xs) == \E n \in 1..Len(xs) : Includes(s, xs[n])

\* The characters that repeat what stands before them in a pattern.
QuantifierChars == {"+", "*", "?"}

\* The number of characters of s up to index i that equal c.
CountUpTo(s, i, c) == Cardinality({ k \in 1..i : s[k] = c })

\* new RegExp(`\\b${word}\\b`, 'i') throws a SyntaxError, for a word
\* without '\', '[' and '{': a quantifier with nothing to repeat (at the
\* start, behind \b; behind '|', '^' or '$'; behind a '(' that opens no
\* '(?:' or lookaround; behind another quantifier, a '?' behind a single
\* quantifier excepted), a ')' with no '(' before it, or a '(' that is
\* not closed.
RegExpThrows(word) ==
    \/ \E i \in 1..Len(word) :
          /\ word[i] \in QuantifierChars
          /\ \/ i = 1
             \/ word[i - 1] \in {"|", "^", "$"}
             \/ /\ word[i - 1] = "("
                /\ ~(word[i] = "?" /\ i < Len(word) /\ word[i + 1] \in {":", "=", "!", "<"})
             \/ /\ word[i - 1] \in QuantifierChars
                /\ ~(word[i] = "?" /\ (i = 2 \/ word[i - 2] \notin QuantifierChars))
    \/ \E i \in 1..Len(word) : CountUpTo(word, i, ")") > CountUpTo(word, i, "(")
    \/ CountUpTo(word, Len(word), "(") # CountUpTo(word, Len(word), ")")

\* The word ends at index j of the content, or before it, on a word boundary.
BoundaryAt(content, j) ==
    (j >= 1 /\ j <= Len(content) /\ content[j] \in WordChars)
        # (j + 1 <= Len(content) /\ content[j + 1] \in WordChars)

\* wordRegex.test(content) for a word of plain characters, which may end
\* in one '?': the word, or the word without the character before the '?',
\* stands in the content between two word boundaries.
MatchesAsWord(content, word) ==
    LET optional == Len(word) >= 2 /\ word[Len(word)] = "?"
        forms == IF optional
                 THEN { SubSeq(word, 1, Len(word) - 1), SubSeq(word, 1, Len(word) - 2) }
                 ELSE { word }
    IN  \E form \in forms : \E i \in 0..(Len(content) - Len(form)) :
           /\ SubSeq(content, i + 1, i + Len(form)) = form
           /\ BoundaryAt(content, i)
           /\ BoundaryAt(content, i + Len(form))

\* The synonyms table of expandSearchTerms: a word and its related terms.
synonyms ==
    << << << "m", "a", "c", "h", "i", "n", "e" >>,
          << << "m", "l" >>,
             << "a", "r", "t", "i", "f", "i", "c", "i", "a", "l" >>,
             << "a", "u", "t", "o", "m", "a", "t", "e", "d" >> >> >>,
       << << "l", "e", "a", "r", "n", "i", "n", "g" >>,
          << << "t", "r", "a", "i", "n", "i", "n", "g" >>,
             << "e", "d", "u", "c", "a", "t", "i", "o", "n" >>,
             << "s", "t", "u", "d", "y" >> >> >>,
       << << "d", "a", "t", "a" >>,
          << << "i", "n", "f", "o", "r", "m", "a", "t", "i", "o", "n" >>,
             << "d", "a", "t", "a", "s", "e", "t" >>,
             << "s", "t", "a", "t", "i", "s", "t", "i", "c", "s" >> >> >>,
       << << "a", "n", "a", "l", "y", "s", "i", "s" >>,
          << << "a", "n", "a", "l", "y", "t", "i", "c", "s" >>,
             << "e", "x", "a", "m", "i", "n", "a", "t", "i", "o", "n" >>,
             << "e", "v", "a", "l", "u", "a", "t", "i", "o", "n" >> >> >>,
       << << "r", "e", "s", "e", "a", "r", "c", "h" >>,
          << << "s", "t", "u", "d", "y" >>,
             << "i", "n", "v", "e", "s", "t", "i", "g", "a", "t", "i", "o", "n" >>,
             << "a", "c", "a", "d", "e", "m", "i", "c" >> >> >>,
       << << "m", "e", "t", "h", "o", "d" >>,
          << << "a", "p", "p", "r", "o", "a", "c", "h" >>,
             << "t", "e", "c", "h", "n", "i", "q", "u", "e" >>,
             << "p", "r", "o", "c", "e", "d", "u", "r", "e" >> >> >>,
       << << "p", "r", "o", "c", "e", "s", "s" >>,
          << << "p", "r", "o", "c", "e", "d", "u", "r", "e" >>,
             << "s", "t", "e", "p", "s" >>,
             << "w", "o", "r", "k", "f", "l", "o", "w" >> >> >>,
       << << "a", "p", "p", "l", "i", "c", "a", "t", "i", "o", "n" >>,
          << << "u", "s", "e" >>,
             << "u", "s", "a", "g", "e" >>,
             << "i", "m", "p", "l", "e", "m", "e", "n", "t", "a", "t", "i", "o", "n" >> >> >>,
       << << "t", "y", "p", "e" >>,
          << << "k", "i", "n", "d" >>,
             << "c", "a", "t", "e", "g", "o", "r", "y" >>,
             << "c", "l", "a", "s", "s", "i", "f", "i", "c", "a", "t", "i", "o", "n" >> >> >>,
       << << "a", "l", "g", "o", "r", "i", "t", "h", "m" >>,
          << << "m", "e", "t", "h", "o", "d" >>,
             << "t", "e", "c", "h", "n", "i", "q", "u", "e" >>,
             << "a", "p", "p", "r", "o", "a", "c", "h" >> >> >> >>

\* The terms of the table for one word, none for a word it does not hold.
SynonymsOf(word) ==
    IF \E n \in 1..Len(synonyms) : synonyms[n][1] = word
    THEN (CHOOSE entry \in { synonyms[n] : n \in 1..Len(synonyms) } : entry[1] = word)[2]
    ELSE << >>

RECURSIVE expandSearchTerms(_)
expandSearchTerms(queryWords) ==
    IF queryWords = << >> THEN << >>
    ELSE SynonymsOf(Head(queryWords)) \o expandSearchTerms(Tail(queryWords))

\* One rule of getContextualScore: 3 when the query holds one of the
\* first words and the content one of the second.
ContextRule(query, content, inQuery, inContent) ==
    IF IncludesAny(query, inQuery) /\ IncludesAny(content, inContent) THEN 3 ELSE 0

\* getContextualScore of PDFProcessor
getContextualScore(query, content) ==
      ContextRule(query, content,
                  << << "w", "h", "a", "t", " ", "i", "s" >>,
                     << "d", "e", "f", "i", "n", "e" >> >>,
                  << << "i", "s", " ", "a" >>,
                     << "i", "s", " ", "a", "n" >>,
                     << "i", "s", " ", "t", "h", "e" >>,
                     << "d", "e", "f", "i", "n", "i", "t", "i", "o", "n" >>,
                     << "r", "e", "f", "e", "r", "s", " ", "t", "o" >> >>)
    + ContextRule(query, content,
                  << << "h", "o", "w" >>,
                     << "p", "r", "o", "c", "e", "s", "s" >>,
                     << "m", "e", "t", "h", "o", "d" >> >>,
                  << << "p", "r", "o", "c", "e", "s", "s" >>,
                     << "m", "e", "t", "h", "o", "d" >>,
                     << "a", "p", "p", "r", "o", "a", "c", "h" >>,
                     << "t", "e", "c", "h", "n", "i", "q", "u", "e" >>,
                     << "p", "r", "o", "c", "e", "d", "u", "r", "e" >> >>)
    + ContextRule(query, content,
                  << << "w", "h", "y" >>,
                     << "r", "e", "a", "s", "o", "n" >> >>,
                  << << "b", "e", "c", "a", "u", "s", "e" >>,
                     << "r", "e", "a", "s", "o", "n" >>,
                     << "d", "u", "e", " ", "t", "o" >>,
                     << "p", "u", "r", "p", "o", "s", "e" >>,
                     << "s", "i", "n", "c", "e" >> >>)
    + ContextRule(query, content,
                  << << "t", "y", "p", "e" >>,
                     << "k", "i", "n", "d" >>,
                     << "c", "a", "t", "e", "g", "o", "r", "y" >> >>,
                  << << "t", "y", "p", "e" >>,
                     << "k", "i", "n", "d" >>,
                     << "c", "a", "t", "e", "g", "o", "r", "y" >>,
                     << "i", "n", "c", "l", "u", "d", "e" >>,
                     << "m", "a", "i", "n" >>,
                     << "p", "r", "i", "m", "a", "r", "y" >>,
                     << "k", "e", "y" >> >>)
    + ContextRule(query, content,
                  << << "a", "p", "p", "l", "i", "c", "a", "t", "i", "o", "n" >>,
                     << "e", "x", "a", "m", "p", "l", "e" >>,
                     << "u", "s", "e" >> >>,
                  << << "a", "p", "p", "l", "i", "c", "a", "t", "i", "o", "n" >>,
                     << "u", "s", "e", "d" >>,
                     << "e", "x", "a", "m", "p", "l", "e" >>,
                     << "i", "n", "d", "u", "s", "t", "r", "y" >>,
                     << "p", "r", "a", "c", "t", "i", "c", "e" >> >>)

\* The score of searchDocuments for a chunk: whole points, and the
\* keyword density matched / totalWords that is doubled and added to them.
SearchScore(points, matched, totalWords) ==
    [points |-> points, matched |-> matched, totalWords |-> totalWords]

\* score > 0
Positive(score) == score.points > 0 \/ score.matched > 0

\* a.score > b.score, with both sides multiplied by the two word counts
Higher(a, b) ==
    a.points * a.totalWords * b.totalWords + 2 * a.matched * b.totalWords
        > b.points * a.totalWords * b.totalWords + 2 * b.matched * a.totalWords

\* The sum of f[n] for n in 1..k.
RECURSIVE SumTo(_, _)
SumTo(f, k) == IF k = 0 THEN 0 ELSE f[k] + SumTo(f, k - 1)

\* The score searchDocuments gives a chunk content (in lower case).
ChunkScore(queryLower, queryWords, expandedTerms, content) ==
    LET wordPoints == [n \in 1..Len(queryWords) |->
                          IF ~Includes(content, queryWords[n]) THEN 0
                          ELSE IF MatchesAsWord(content, queryWords[n]) THEN 3 ELSE 2]
        termPoints == [n \in 1..Len(expandedTerms) |->
                          IF /\ Includes(content, expandedTerms[n])
                             /\ \A m \in 1..Len(queryWords) : queryWords[m] # expandedTerms[n]
                          THEN 1 ELSE 0]
        totalWords == Len(Split(content, WsChars))
        matchedWords == Cardinality({ n \in 1..Len(queryWords) : Includes(content, queryWords[n]) })
    IN  SearchScore((IF Includes(content, queryLower) THEN 5 ELSE 0)
                        + SumTo(wordPoints, Len(queryWords))
                        + SumTo(termPoints, Len(expandedTerms))
                        + getContextualScore(queryLower, content),
                    matchedWords,
                    IF totalWords > 1 THEN totalWords ELSE 1)

\* The chunks of the 'ready' documents in the order searchDocuments visits
\* them, each with its document.
RECURSIVE ReadyChunks(_)
ReadyChunks(docs) ==
    IF docs = << >> THEN << >>
    ELSE (IF Head(docs).status = "ready"
          THEN [n \in 1..Len(Head(docs).chunks) |->
                   [chunk |-> Head(docs).chunks[n], document |-> ApiDocument(Head(docs))]]
          ELSE << >>) \o ReadyChunks(Tail(docs))

\* The results as they are, in the order of their chunks.
keepChunkOrder(results) == results

\* Array.prototype.sort((a, b) => b.score - a.score): stable, the higher
\* score first.
RECURSIVE SortByScore(_)
SortByScore(results) ==
    IF results = << >> THEN << >>
    ELSE LET sorted == SortByScore(Tail(results))
             first == Head(results)
             \* first goes before the first entry it is not lower than
             k == IF \E n \in 1..Len(sorted) : ~Higher(sorted[n].score, first.score)
                  THEN CHOOSE n \in 1..Len(sorted) :
                          /\ ~Higher(sorted[n].score, first.score)
                          /\ \A m \in 1..(n - 1) : Higher(sorted[m].score, first.score)
                  ELSE Len(sorted) + 1
         IN  SubSeq(sorted, 1, k - 1) \o << first >> \o SubSeq(sorted, k, Len(sorted))

\* The number of results searchDocuments returns at most.
maxSearchResults == 6

\* searchDocuments: threw is TRUE when a pattern built from a query word
\* that a chunk holds is rejected by RegExp.
searchDocuments(query, docs) ==
    LET queryLower == toLowerCase(query)
        queryWords == SelectSeq(Split(queryLower, WsChars), LAMBDA word : Len(word) > 2)
        expandedTerms == expandSearchTerms(queryWords)
        chunks == ReadyChunks(docs)
        contents == [n \in 1..Len(chunks) |-> toLowerCase(chunks[n].chunk.content)]
        threw == \E n \in 1..Len(chunks) : \E m \in 1..Len(queryWords) :
                    Includes(contents[n], queryWords[m]) /\ RegExpThrows(queryWords[m])
        scored == [n \in 1..Len(chunks) |->
                      [chunk |-> chunks[n].chunk, document |-> chunks[n].document,
                       score |-> ChunkScore(queryLower, queryWords, expandedTerms, contents[n])]]
        results == SelectSeq(scored, LAMBDA r : Positive(r.score))
    IN  IF threw THEN [threw |-> TRUE, results |-> << >>]
        ELSE [threw |-> FALSE, results |-> Prefix(SortByScore(results), maxSearchResults)]

\* ------------------------------------------------------------------------
\* EnhancedQuestionAnswering: the semantic search
\* ------------------------------------------------------------------------

stopWords ==
    { Chars("the"), Chars("a"), Chars("an"), Chars("and"), Chars("or"),
      Chars("but"), Chars("in"), Chars("on"), Chars("at"), Chars("to"),
      Chars("for"), Chars("of"), Chars("with"), Chars("by"), Chars("from"),
      Chars("about"), Chars("what"), Chars("how"), Chars("when"), Chars("where"),
      Chars("why"), Chars("who"), Chars("which"), Chars("that"), Chars("this"),
      Chars("is"), Chars("are"), Chars("was"), Chars("were"), Chars("be"),
      Chars("been"), Chars("being"), Chars("have"), Chars("has"), Chars("had"),
      Chars("do"), Chars("does"), Chars("did"), Chars("will"), Chars("would"),
      Chars("could"), Chars("should"), Chars("may"), Chars("might"), Chars("can"),
      Chars("shall") }

\* query.replace(/[^\w\s]/g, ' ')
PunctuationToSpace(query) ==
    [i \in 1..Len(query) |-> IF query[i] \in WordChars \cup WsChars THEN query[i] ELSE " "]

\* The filter of extractQueryTerms.
IsQueryTerm(word) == Len(word) > 2 /\ word \notin stopWords

\* The number of terms extractQueryTerms keeps.
maxQueryTerms == 10

\* The terms as the filter leaves them, none for a query without one.
termsAsFound(terms) == terms

\* terms.length > 0 ? terms : ['query']
TermsOrPlaceholder(terms) == IF Len(terms) > 0 THEN terms ELSE << Chars("query") >>

extractQueryTerms(query) ==
    TermsOrPlaceholder(
        Prefix(SelectSeq(Split(PunctuationToSpace(toLowerCase(query)), WsChars), IsQueryTerm),
               maxQueryTerms))

\* The patterns of getContextualScore of EnhancedQuestionAnswering: each
\* alternation as the list of its alternatives.
patterns ==
    << [queryPattern |-> << Chars("what is"), Chars("define"), Chars("definition") >>,
        contentPattern |-> << Chars("is a"), Chars("is the"), Chars("refers to"),
                            Chars("defined as"), Chars("means") >>,
        weight |-> 4],
       [queryPattern |-> << Chars("how does"), Chars("how to"), Chars("process"), Chars("method") >>,
        contentPattern |-> << Chars("process"), Chars("method"), Chars("approach"),
                            Chars("technique"), Chars("procedure"), Chars("steps") >>,
        weight |-> 4],
       [queryPattern |-> << Chars("why"), Chars("reason"), Chars("because") >>,
        contentPattern |-> << Chars("because"), Chars("reason"), Chars("due to"),
                            Chars("since"), Chars("therefore"), Chars("purpose") >>,
        weight |-> 4],
       [queryPattern |-> << Chars("types"), Chars("kinds"), Chars("categories") >>,
        contentPattern |-> << Chars("types"), Chars("kinds"), Chars("categories"),
                            Chars("include"), Chars("main"), Chars("primary") >>,
        weight |-> 4],
       [queryPattern |-> << Chars("example"), Chars("application"), Chars("use") >>,
        contentPattern |-> << Chars("example"), Chars("application"), Chars("used"),
                            Chars("practice"), Chars("industry"), Chars("case") >>,
        weight |-> 3],
       [queryPattern |-> << Chars("benefit"), Chars("advantage"), Chars("pros") >>,
        contentPattern |-> << Chars("benefit"), Chars("advantage"), Chars("strength"),
                            Chars("positive"), Chars("improved") >>,
        weight |-> 3],
       [queryPattern |-> << Chars("limitation"), Chars("disadvantage"), Chars("problem") >>,
        contentPattern |-> << Chars("limitation"), Chars("disadvantage"), Chars("problem"),
                            Chars("issue"), Chars("challenge") >>,
        weight |-> 3] >>

\* getContextualScore of EnhancedQuestionAnswering; query and content are
\* in lower case where calculateSemanticScore calls it.
RECURSIVE ContextualScoreFrom(_, _, _)
ContextualScoreFrom(query, content, k) ==
    IF k > Len(patterns) THEN 0
    ELSE (IF /\ IncludesAny(toLowerCase(query), patterns[k].queryPattern)
             /\ IncludesAny(toLowerCase(content), patterns[k].contentPattern)
          THEN patterns[k].weight ELSE 0)
         + ContextualScoreFrom(query, content, k + 1)

\* The tenths of a point the term at place n of the N query terms gives a
\* content: 3 * positionWeight when the content includes it, 2 *
\* positionWeight more when it stands there as a word, and positionWeight
\* is 1 + (N - index) * 0.1 for index = n - 1.
TermTenths(queryWords, n, content) ==
    IF ~Includes(content, queryWords[n]) THEN 0
    ELSE (IF MatchesAsWord(content, queryWords[n]) THEN 5 ELSE 3)
         * (10 + Len(queryWords) - (n - 1))

\* The number of query terms the text includes.
MatchingWords(queryWords, text) ==
    Cardinality({ n \in 1..Len(queryWords) : Includes(text, queryWords[n]) })

\* calculateSemanticScore, ten times the score: its whole tenths go to the
\* points of a SearchScore and the density bonus 5 * matchingWords /
\* contentWords is with the factor 10 the doubled 25 * matchingWords over
\* contentWords.
calculateSemanticScore(queryWords, content, documentName) ==
    SearchScore((IF Includes(content, Join(queryWords, << " " >>)) THEN 100 ELSE 0)
                    + SumTo([n \in 1..Len(queryWords) |-> TermTenths(queryWords, n, content)],
                            Len(queryWords))
                    + 10 * ContextualScoreFrom(Join(queryWords, << " " >>), content, 1)
                    + 10 * MatchingWords(queryWords, documentName),
                25 * MatchingWords(queryWords, content),
                Len(Split(content, WsChars)))

\* The number of results performSemanticSearch returns at most.
maxSemanticResults == 8

\* The chunks of ReadyChunks with their scores for the query terms.
ScoredChunks(queryWords, chunks) ==
    [n \in 1..Len(chunks) |->
        [chunk |-> chunks[n].chunk, document |-> chunks[n].document,
         score |-> calculateSemanticScore(queryWords,
                                          toLowerCase(chunks[n].chunk.content),
                                          toLowerCase(chunks[n].document.name))]]

\* Every scored chunk is kept.
anyScore(r) == TRUE

HasPositiveScore(r) == Positive(r.score)

performSemanticSearch(query, docs) ==
    Prefix(SortByScore(SelectSeq(ScoredChunks(extractQueryTerms(toLowerCase(query)),
                                              ReadyChunks(docs)),
                                 HasPositiveScore)),
           maxSemanticResults)

\* A confidence as the fraction num / den.
Fraction(num, den) == [num |-> num, den |-> den]

\* results[1].score > topScore * 0.8, on two scores of the search
SecondIsClose(top, second) ==
    5 * (second.points * second.totalWords + 2 * second.matched) * top.totalWords
        > 4 * (top.points * top.totalWords + 2 * top.matched) * second.totalWords

\* Math.min(a, b)
Min(a, b) == IF a < b THEN a ELSE b

\* The base, the bonus and the coverage added up and left as they are.
unclampedConfidence(top, close, covered, terms) ==
    Fraction(Min(top.points * top.totalWords + 2 * top.matched, 100 * top.totalWords) * terms
                 + (IF close THEN 10 * top.totalWords * terms ELSE 0)
                 + 20 * top.totalWords * covered,
             100 * top.totalWords * terms)

\* calculateConfidence behind its test for no results, over the common
\* denominator 100 * totalWords * terms: top is ten times the top score,
\* close tells whether the bonus of 0.1 is given, covered is the number
\* of the terms query terms that the top content includes.
ConfidenceOf(top, close, covered, terms) ==
    Fraction(Min(Min(top.points * top.totalWords + 2 * top.matched, 100 * top.totalWords)
                     * terms
                     + (IF close THEN 10 * top.totalWords * terms ELSE 0)
                     + 20 * top.totalWords * covered,
                 100 * top.totalWords * terms),
             100 * top.totalWords * terms)

calculateConfidence(query, results) ==
    IF Len(results) = 0 THEN Fraction(0, 1)
    ELSE ConfidenceOf(results[1].score,
                      Len(results) > 1 /\ SecondIsClose(results[1].score, results[2].score),
                      MatchingWords(extractQueryTerms(toLowerCase(query)),
                                    toLowerCase(results[1].chunk.content)),
                      Len(extractQueryTerms(toLowerCase(query))))

\* The length from which formatSources cuts the excerpt of a source.
maxSourceExcerpt == 150

\* formatSources, without the rounded relevanceScore that
\* PDFProcessor.generateAnswer drops.
formatSources(results) ==
    [n \in 1..Min(Len(results), 3) |->
        [document |-> results[n].document.name,
         page |-> results[n].chunk.page,
         excerpt |-> IF Len(results[n].chunk.content) > maxSourceExcerpt
                     THEN Prefix(results[n].chunk.content, maxSourceExcerpt) \o << ".", ".", "." >>
                     ELSE results[n].chunk.content]]

\* generateNoResultsAnswer: the message, named by its first words, and
\* the query it quotes.
generateNoResultsAnswer(query, docs) ==
    IF \A n \in 1..Len(docs) : docs[n].status # "ready"
    THEN [template |-> "I don't have any processed documents to search through yet",
          text |-> << >>]
    ELSE [template |-> "I couldn't find specific information about ... This might be because",
          text |-> query]

\* EnhancedQuestionAnswering.generateAnswer on the results of the search.
\* The text generateIntelligentAnswer composes and the follow-up questions
\* are named, not spelt out.
AnswerFromResults(query, docs, searchResults) ==
    IF Len(searchResults) = 0
    THEN [searchResults |-> searchResults,
          answer |-> generateNoResultsAnswer(query, docs),
          confidence |-> Fraction(0, 1),
          sources |-> << >>,
          suggestedFollowUps |-> "generateGenericFollowUps"]
    ELSE [searchResults |-> searchResults,
          answer |-> [template |-> "generateIntelligentAnswer", text |-> query],
          confidence |-> calculateConfidence(query, searchResults),
          sources |-> formatSources(searchResults),
          suggestedFollowUps |-> "generateContextualFollowUps"]

\* EnhancedQuestionAnswering.generateAnswer
EnhancedGenerateAnswer(query, docs) ==
    AnswerFromResults(query, docs, performSemanticSearch(query, docs))

\* Every answer is given the line of a high confidence.
noteAlways(confidence) == "High confidence answer"

\* The line PDFProcessor.generateAnswer adds below the answer for the
\* confidence: above 0.7, above 0.4, or none.
ConfidenceNote(confidence) ==
    IF 10 * confidence.num > 7 * confidence.den THEN "High confidence answer"
    ELSE IF 10 * confidence.num > 4 * confidence.den THEN "Moderate confidence"
    ELSE "none"

\* The answer of PDFProcessor.generateAnswer for the result of the
\* enhanced engine.
EnhancedAnswer(enhanced) ==
    [answer |-> [template |-> enhanced.answer.template, text |-> enhanced.answer.text,
                 note |-> ConfidenceNote(enhanced.confidence),
                 followUps |-> enhanced.suggestedFollowUps],
     sources |-> enhanced.sources]

\* The length from which generateAnswer cuts the excerpt of a source.
maxExcerpt == 120

\* The sources of the fallback answer: the first three results.
FallbackSources(results) ==
    [n \in 1..(IF Len(results) < 3 THEN Len(results) ELSE 3) |->
        [document |-> results[n].document.name,
         page |-> results[n].chunk.page,
         excerpt |-> IF Len(results[n].chunk.content) > maxExcerpt
                     THEN Prefix(results[n].chunk.content, maxExcerpt) \o << ".", ".", "." >>
                     ELSE results[n].chunk.content]]

\* An answer of generateAnswer: its text, named by the template and the
\* text the template is filled with, and its sources.
Answer(template, text, sources) ==
    [answer |-> [template |-> template, text |-> text], sources |-> sources]

\* generateAnswer. hasRequire tells whether the build gives the module
\* a require function: where it does not, the first statement of the try
\* block throws and the catch block runs the simple search, whose own
\* exception nothing in generateAnswer catches.
generateAnswer(query, docs, hasRequire) ==
    IF hasRequire
    THEN IF docs = << >>
         THEN [threw |-> FALSE, value |-> Answer("No documents are currently available", << >>, << >>)]
         ELSE [threw |-> FALSE, value |-> EnhancedAnswer(EnhancedGenerateAnswer(query, docs))]
    ELSE LET search == searchDocuments(query, docs)
         IN  IF search.threw THEN [threw |-> TRUE, value |-> "SyntaxError"]
             ELSE IF search.results = << >>
             THEN [threw |-> FALSE,
                   value |-> Answer("I couldn't find specific information about", query, << >>)]
             ELSE [threw |-> FALSE,
                   value |-> Answer("Based on your documents:", search.results[1].chunk.content,
                                    FallbackSources(search.results))]

\* askQuestion of the api module
askQuestion(question, docs, hasRequire) ==
    LET answer == generateAnswer(question, docs, hasRequire)
    IN  IF answer.threw
        THEN [op |-> "askQuestion", question |-> question,
              error |-> "Failed to process question"]
        ELSE [op |-> "askQuestion", question |-> question,
              answer |-> answer.value.answer, sources |-> answer.value.sources]

\* ------------------------------------------------------------------------
\* The document store from a fresh page on
\* ------------------------------------------------------------------------

\* The questions put to askQuestion.
Questions ==
    { << "i", "s", " ", "c", "+", "+", " ", "f", "a", "s", "t" >>,
      << "w", "h", "a", "t", " ", "a", "b", "o", "u", "t", " ", "d", "e", "f", "?" >>,
      << "z", "z", "z" >> }

\* askQuestion, behind its delay
AskQuestion(question) ==
    /\ result' = askQuestion(question, documents, requireDefined)
    /\ UNCHANGED << documents, storage, tasks, nextId, processed, requireDefined >>

vars == << documents, storage, tasks, nextId, result, processed, requireDefined,
          call, user, questionsAsked, showUpgradePrompt, messages, pending,
          faqItems, questionHistory, now, uiDocuments, uploads, loads,
          documentsProcessed >>

\* No document in the store, none in the storage, no upload under way.
EmptyStore ==
    /\ documents = << >>
    /\ storage = << >>
    /\ tasks = {}
    /\ nextId = 0
    /\ result = NoResult

\* Nobody signed in, no message sent.
EmptyChat ==
    /\ user = FALSE
    /\ questionsAsked = 0
    /\ showUpgradePrompt = FALSE
    /\ messages = << >>
    /\ pending = << >>

\* No FAQSystem constructed.
EmptyFaq ==
    /\ faqItems = << >>
    /\ questionHistory = << >>
    /\ now = 0

\* No document in the list of the App component, no call under way.
EmptyUi ==
    /\ uiDocuments = << >>
    /\ uploads = << >>
    /\ loads = 0
    /\ documentsProcessed = 0

Init ==
    /\ EmptyStore
    /\ processed = ProcessedDocuments
    /\ requireDefined \in BOOLEAN
    /\ call = NoCall
    /\ EmptyChat
    /\ EmptyFaq
    /\ EmptyUi

Upload == (\E file \in Files : UploadDocument(file)) /\ UNCHANGED << call, chatVars, faqVars, uiVars >>

Resume ==
    /\ \E task \in tasks : \E resp \in Responses : ProcessFileResume(task, resp)
    /\ UNCHANGED << call, chatVars, faqVars, uiVars >>

List == GetDocuments /\ UNCHANGED << call, chatVars, faqVars, uiVars >>

Delete == (\E id \in 0..(MaxDocs - 1) : DeleteDocument(id)) /\ UNCHANGED << call, chatVars, faqVars, uiVars >>

Ask == (\E question \in Questions : AskQuestion(question)) /\ UNCHANGED << call, chatVars, faqVars, uiVars >>

Content ==
    /\ \E id \in 0..(MaxDocs - 1) : GetDocumentContent(id)
    /\ UNCHANGED << call, chatVars, faqVars, uiVars >>

Next == Upload \/ Resume \/ List \/ Delete \/ Ask \/ Content

Spec == Init /\ [][Next]_vars

\* ------------------------------------------------------------------------
\* Properties of the document store
\* ------------------------------------------------------------------------

StatusOf(docs, id) == getDocument(docs, id).status

\* C1: a document enters the store under a new id with status 'processing',
\* a document that stays in the store keeps its status or goes from
\* 'processing' to 'ready' or 'error', and a 'ready' or 'error' document
\* keeps its status in every step of upload, getDocuments and delete.
C1_StatusLifecycle ==
    [][\A id \in DocIds(documents') :
          /\ (id \notin DocIds(documents) /\ id >= nextId)
                => StatusOf(documents', id) = "processing"
          /\ id \in DocIds(documents)
                => \/ StatusOf(documents', id) = StatusOf(documents, id)
                   \/ /\ StatusOf(documents, id) = "processing"
                      /\ StatusOf(documents', id) \in {"ready", "error"}]_vars

\* One document has become 'ready' and another 'error', and getDocuments
\* has run since.
C1_Witness ==
    /\ \E n \in 1..Len(documents) : documents[n].status = "ready"
    /\ \E n \in 1..Len(documents) : documents[n].status = "error"
    /\ result.op = "getDocuments"

\* C2: a document that deleteDocument has removed (an id that was drawn
\* and is not in the store) is in the store in no later state.
C2_DeletedStaysDeleted ==
    [][\A id \in 0..(nextId - 1) :
          id \notin DocIds(documents) => id \notin DocIds(documents')]_vars

\* C3: uploadDocument of a file that is no PDF or is larger than 10 MB
\* returns an error value and leaves the store, the storage and the
\* running tasks as they were, and no document of such a file is ever in
\* the store, in the storage or in processing.
C3_Rejected(file) == file.type # "application/pdf" \/ file.size > 10 * 1024 * 1024

C3_RejectedUploadChangesNothing ==
    /\ [][\A file \in Files :
             (C3_Rejected(file) /\ UploadDocument(file))
                => /\ result'.op = "uploadDocument"
                   /\ IsError(result')
                   /\ UNCHANGED << documents, storage, tasks, nextId >>]_vars
    /\ [](\A file \in Files : C3_Rejected(file) =>
             /\ \A n \in 1..Len(documents) :
                   ~(documents[n].name = file.name /\ documents[n].size = file.size)
             /\ \A n \in 1..Len(storage) :
                   ~(storage[n].name = file.name /\ storage[n].size = file.size)
             /\ \A task \in tasks : task.file # file)

\* The 11 MB file has been rejected while the store holds a document.
C3_Witness ==
    /\ result.op = "uploadDocument"
    /\ IsError(result)
    /\ result.error = "File size must be less than 10MB"
    /\ documents # << >>
    /\ storage # << >>

\* C4: every askQuestion ends with a {data: {answer, sources}} result.
C4_AskNeverFails ==
    result.op = "askQuestion" => IsData(result) /\ DOMAIN result = {"op", "question", "answer", "sources"}

\* ------------------------------------------------------------------------
\* One upload, over every file and every answer of the extraction API
\* ------------------------------------------------------------------------

\* The number of documents a run of the extraction uploads.
MaxExtracted == 1

ExtractedDocuments ==
    [file \in ExtractionFiles, resp \in Responses |-> ProcessedDocument(0, file, resp)]

ExtractInit ==
    /\ EmptyStore
    /\ processed = ExtractedDocuments
    /\ requireDefined = FALSE
    /\ call = NoCall
    /\ EmptyChat
    /\ EmptyFaq
    /\ EmptyUi

ExtractUpload ==
    /\ nextId < MaxExtracted
    /\ \E file \in ExtractionFiles : UploadDocument(file)
    /\ UNCHANGED << call, chatVars, faqVars, uiVars >>

ExtractNext == ExtractUpload \/ Resume \/ List

ExtractSpec == ExtractInit /\ [][ExtractNext]_vars

\* The API gives no text: the request fails, the answer is an HTTP error,
\* or the answer holds no text field.
C5_ApiFails(resp) == resp.kind \in {"cors", "httpError", "unexpected"}

\* The local extraction gets no text out of the file: it is too large to
\* read, unreadable, no PDF, or holds fewer than 100 readable characters.
C5_NoLocalText(file) ==
    \/ file.size > 5 * 1024 * 1024
    \/ ~file.readable
    \/ ~file.header
    \/ Len(file.found) < 100

\* C5: when the API gives no text and the local extraction finds none,
\* extractTextWithFallback returns one page holding the metadata text of
\* the file, the upload ends with the document 'ready' over that text, and
\* no document is 'processing' without a processFile call under way.
C5_FailedExtractionEndsReady ==
    /\ [][\A task \in tasks : \A resp \in Responses :
             (C5_ApiFails(resp) /\ C5_NoLocalText(task.file) /\ ProcessFileResume(task, resp))
                => /\ extractTextWithFallback(task.file, resp).pages =
                          << [page |-> 1, text |-> generateDocumentMetadata(task.file)] >>
                   /\ getDocument(documents', task.id).status = "ready"
                   /\ getDocument(documents', task.id).fullText =
                          generateDocumentMetadata(task.file)
                   /\ Len(getDocument(documents', task.id).pages) = 1
                   /\ IsData(result')]_vars
    /\ [](\A n \in 1..Len(documents) :
             documents[n].status = "processing" => \E task \in tasks : task.id = documents[n].id)

\* The upload of the 6 MB file, which the local extraction does not read,
\* has ended 'ready' over the metadata text.
C5_Witness ==
    /\ result.op = "uploadDocument"
    /\ IsData(result)
    /\ \E n \in 1..Len(documents) :
          /\ documents[n].size = LargePdf.size
          /\ documents[n].status = "ready"
          /\ documents[n].fullText = generateDocumentMetadata(LargePdf)

\* C7: every 'ready' document has as many pages as its pageCount says.
C7_PagesMatchPageCount ==
    \A n \in 1..Len(documents) :
        documents[n].status = "ready" => Len(documents[n].pages) = documents[n].pageCount

\* C8: every 'ready' document has at least one chunk, so a file whose
\* pages yield no chunk does not end 'ready'.
C8_ReadyHasChunks ==
    \A n \in 1..Len(documents) :
        documents[n].status = "ready" => Len(documents[n].chunks) > 0

\* ------------------------------------------------------------------------
\* createTextChunks, applied to page lists
\* ------------------------------------------------------------------------

\* The longest text of a page list of one page; the first page of a list
\* of two pages is one character shorter, the second two.
MaxTextLen == 4

\* The texts of at most n characters over two letters, the full stop and
\* the blank.
Texts(n) == UNION { [1..k -> {"a", "b", ".", " "}] : k \in 0..n }

\* Page lists as parseTextIntoPages numbers them.
ChunkPageLists ==
    { << [page |-> 1, text |-> t] >> : t \in Texts(MaxTextLen) }
    \cup { << [page |-> 1, text |-> t], [page |-> 2, text |-> u] >> :
              t \in Texts(MaxTextLen - 1), u \in Texts(MaxTextLen - 2) }

\* The calls: every page list with a maxChunkSize of 1, 3 or 4, and a page
\* of two sentences of 250 and 248 characters with the default size.
ChunkCalls ==
    { [fn |-> "createTextChunks", pages |-> pages, maxChunkSize |-> size] :
          pages \in ChunkPageLists, size \in {1, 3, 4} }
    \cup { [fn |-> "createTextChunks",
            pages |-> << [page |-> 1,
                          text |-> Rep("a", 250) \o << "." >> \o Rep("b", 248)] >>,
            maxChunkSize |-> defaultMaxChunkSize] }

ChunkInit ==
    /\ EmptyStore
    /\ processed = << >>
    /\ requireDefined = FALSE
    /\ call \in ChunkCalls
    /\ EmptyChat
    /\ EmptyFaq
    /\ EmptyUi

CreateTextChunks ==
    /\ call.fn = "createTextChunks"
    /\ result.op = "none"
    /\ result' = [op |-> "createTextChunks",
                   chunks |-> createTextChunks(call.pages, call.maxChunkSize)]
    /\ UNCHANGED << documents, storage, tasks, nextId, processed, requireDefined, call, chatVars, faqVars, uiVars >>

ChunkNext == CreateTextChunks

ChunkSpec == ChunkInit /\ [][ChunkNext]_vars

\* The sentences of a text as createTextChunks takes them, trimmed.
C9_TrimmedSentences(text) == [n \in 1..Len(Sentences(text)) |-> Trim(Sentences(text)[n])]

\* C9: every chunk of createTextChunks is at most maxChunkSize characters
\* long, unless it consists of exactly one sentence that is itself longer
\* than maxChunkSize.
C9_ChunkWithinMaxSize ==
    result.op = "createTextChunks" =>
        \A k \in 1..Len(result.chunks) :
            \/ Len(result.chunks[k].content) <= call.maxChunkSize
            \/ /\ Len(C9_TrimmedSentences(result.chunks[k].content)) = 1
               /\ Len(C9_TrimmedSentences(result.chunks[k].content)[1]) > call.maxChunkSize

\* A text without its whitespace.
C11_IsNoSpace(c) == c \notin WsChars
C11_WithoutSpace(text) == SelectSeq(text, C11_IsNoSpace)

\* C11: the chunk contents of createTextChunks put together in chunkIndex
\* order are, whitespace apart, the page texts put together in page order.
C11_ChunksRebuildPages ==
    result.op = "createTextChunks" =>
        C11_WithoutSpace(Join([k \in 1..Len(result.chunks) |-> result.chunks[k].content],
                              << " " >>))
            = C11_WithoutSpace(Join([p \in 1..Len(call.pages) |-> call.pages[p].text],
                                    << " " >>))

\* The sentences of the chunks that carry the page number, in chunk order.
RECURSIVE C10_SentencesOfPage(_, _)
C10_SentencesOfPage(chunks, pageNumber) ==
    IF chunks = << >> THEN << >>
    ELSE (IF Head(chunks).page = pageNumber
          THEN C9_TrimmedSentences(Head(chunks).content) ELSE << >>)
         \o C10_SentencesOfPage(Tail(chunks), pageNumber)

\* C10: the chunks of createTextChunks are numbered 0, 1, ..., n-1 in
\* output order, every chunk carries the number of a page of the list, the
\* chunks that carry a page's number hold exactly that page's sentences in
\* their order, and the page numbers do not go back along the chunks.
C10_ChunksFollowPages ==
    result.op = "createTextChunks" =>
        /\ \A k \in 1..Len(result.chunks) : result.chunks[k].chunkIndex = k - 1
        /\ \A k \in 1..Len(result.chunks) :
               \E p \in 1..Len(call.pages) : call.pages[p].page = result.chunks[k].page
        /\ \A p \in 1..Len(call.pages) :
               C10_SentencesOfPage(result.chunks, call.pages[p].page)
                   = C9_TrimmedSentences(call.pages[p].text)
        /\ \A k \in 1..Len(result.chunks) : \A l \in k..Len(result.chunks) :
               result.chunks[k].page <= result.chunks[l].page

\* A list of two pages has given three chunks, two of the first page and
\* one of the second.
C10_Witness ==
    /\ result.op = "createTextChunks"
    /\ Len(call.pages) = 2
    /\ Len(result.chunks) = 3
    /\ result.chunks[2].page = 1
    /\ result.chunks[3].page = 2

\* ------------------------------------------------------------------------
\* The predefined answers and the chat handler of the App component
\* ------------------------------------------------------------------------

\* An entry of a keyword table: the keywords and the index of the answer.
KeywordMatch(keywords, index) == [keywords |-> Chars(keywords), index |-> index]

\* The answers are named by their place in the tables.
ML_RESEARCH_QA ==
    << [question |-> Chars("Difference between traditional programming and machine learning?"),
       answer |-> "ML_RESEARCH_QA[0].answer"],
      [question |-> Chars("What are the main types of machine learning methods discussed in the paper?"),
       answer |-> "ML_RESEARCH_QA[1].answer"],
      [question |-> Chars("What are the three key elements of every machine learning algorithm?"),
       answer |-> "ML_RESEARCH_QA[2].answer"],
      [question |-> Chars("What real-world applications of machine learning are highlighted in the paper?"),
       answer |-> "ML_RESEARCH_QA[3].answer"],
      [question |-> Chars("What are the main advantages of machine learning mentioned?"),
       answer |-> "ML_RESEARCH_QA[4].answer"],
      [question |-> Chars("What are some limitations or disadvantages of machine learning?"),
       answer |-> "ML_RESEARCH_QA[5].answer"],
      [question |-> Chars("Which programming languages are most used in machine learning according to the paper?"),
       answer |-> "ML_RESEARCH_QA[6].answer"],
      [question |-> Chars("Which companies are highlighted as using ML, and how?"),
       answer |-> "ML_RESEARCH_QA[7].answer"],
      [question |-> Chars("How does reinforcement learning differ from supervised learning?"),
       answer |-> "ML_RESEARCH_QA[8].answer"],
      [question |-> Chars("Summarize the document"),
       answer |-> "ML_RESEARCH_QA[9].answer"] >>

NUCLEAR_PHYSICS_QA ==
    << [question |-> Chars("What does nuclear physics study and what are its main applications?"),
       answer |-> "NUCLEAR_PHYSICS_QA[0].answer"],
      [question |-> Chars("What are the basic properties of nuclei?"),
       answer |-> "NUCLEAR_PHYSICS_QA[1].answer"],
      [question |-> Chars("What is nuclear binding energy and why is it important?"),
       answer |-> "NUCLEAR_PHYSICS_QA[2].answer"],
      [question |-> Chars("What are the characteristics of the nuclear force?"),
       answer |-> "NUCLEAR_PHYSICS_QA[3].answer"],
      [question |-> Chars("What is radioactivity and what are its types?"),
       answer |-> "NUCLEAR_PHYSICS_QA[4].answer"],
      [question |-> Chars("What are nuclear reactions and what is the Q-value?"),
       answer |-> "NUCLEAR_PHYSICS_QA[5].answer"],
      [question |-> Chars("Explain nuclear fission and its use in reactors."),
       answer |-> "NUCLEAR_PHYSICS_QA[6].answer"],
      [question |-> Chars("What is nuclear fusion and why is it important?"),
       answer |-> "NUCLEAR_PHYSICS_QA[7].answer"],
      [question |-> Chars("How does Carbon-14 dating work?"),
       answer |-> "NUCLEAR_PHYSICS_QA[8].answer"],
      [question |-> Chars("Summarize the differences between fission and fusion, and their significance."),
       answer |-> "NUCLEAR_PHYSICS_QA[9].answer"] >>

mlKeywordMatches ==
    << KeywordMatch("traditional programming", 0),
       KeywordMatch("difference between traditional", 0),
       KeywordMatch("traditional vs machine learning", 0),
       KeywordMatch("traditional vs ml", 0),
       KeywordMatch("types of machine learning", 1),
       KeywordMatch("kinds of machine learning", 1),
       KeywordMatch("main types", 1),
       KeywordMatch("supervised unsupervised", 1),
       KeywordMatch("three key elements", 2),
       KeywordMatch("key elements", 2),
       KeywordMatch("representation evaluation optimization", 2),
       KeywordMatch("real-world applications", 3),
       KeywordMatch("applications of machine learning", 3),
       KeywordMatch("applications highlighted", 3),
       KeywordMatch("use cases", 3),
       KeywordMatch("advantages of machine learning", 4),
       KeywordMatch("benefits of machine learning", 4),
       KeywordMatch("main advantages", 4),
       KeywordMatch("pros of machine learning", 4),
       KeywordMatch("limitations", 5),
       KeywordMatch("disadvantages", 5),
       KeywordMatch("cons of machine learning", 5),
       KeywordMatch("problems with machine learning", 5),
       KeywordMatch("programming languages", 6),
       KeywordMatch("languages used", 6),
       KeywordMatch("python r java", 6),
       KeywordMatch("most used languages", 6),
       KeywordMatch("companies using ml", 7),
       KeywordMatch("companies highlighted", 7),
       KeywordMatch("google facebook twitter", 7),
       KeywordMatch("which companies", 7),
       KeywordMatch("reinforcement learning differ", 8),
       KeywordMatch("reinforcement vs supervised", 8),
       KeywordMatch("difference reinforcement", 8),
       KeywordMatch("summarize", 9),
       KeywordMatch("summary", 9),
       KeywordMatch("overview", 9),
       KeywordMatch("summarize the document", 9),
       KeywordMatch("give me a summary", 9),
       KeywordMatch("what is this document about", 9) >>

nuclearKeywordMatches ==
    << KeywordMatch("nuclear physics study", 0),
       KeywordMatch("what does nuclear physics", 0),
       KeywordMatch("nuclear physics applications", 0),
       KeywordMatch("applications of nuclear physics", 0),
       KeywordMatch("basic properties of nuclei", 1),
       KeywordMatch("properties of nuclei", 1),
       KeywordMatch("nuclear properties", 1),
       KeywordMatch("protons neutrons", 1),
       KeywordMatch("isotopes", 1),
       KeywordMatch("nuclear size", 1),
       KeywordMatch("nuclear density", 1),
       KeywordMatch("nuclear binding energy", 2),
       KeywordMatch("binding energy", 2),
       KeywordMatch("nuclear stability", 2),
       KeywordMatch("binding energy per nucleon", 2),
       KeywordMatch("nuclear force", 3),
       KeywordMatch("characteristics of nuclear force", 3),
       KeywordMatch("strong force", 3),
       KeywordMatch("short-ranged force", 3),
       KeywordMatch("radioactivity", 4),
       KeywordMatch("types of radioactivity", 4),
       KeywordMatch("alpha decay", 4),
       KeywordMatch("beta decay", 4),
       KeywordMatch("gamma decay", 4),
       KeywordMatch("radioactive decay", 4),
       KeywordMatch("half-life", 4),
       KeywordMatch("nuclear reactions", 5),
       KeywordMatch("q-value", 5),
       KeywordMatch("exoergic endoergic", 5),
       KeywordMatch("neutron-induced reactions", 5),
       KeywordMatch("nuclear fission", 6),
       KeywordMatch("fission", 6),
       KeywordMatch("nuclear reactors", 6),
       KeywordMatch("chain reaction", 6),
       KeywordMatch("u-235", 6),
       KeywordMatch("uranium-235", 6),
       KeywordMatch("moderators control rods", 6),
       KeywordMatch("nuclear fusion", 7),
       KeywordMatch("fusion", 7),
       KeywordMatch("deuterium tritium", 7),
       KeywordMatch("plasma confinement", 7),
       KeywordMatch("fusion energy", 7),
       KeywordMatch("sun energy", 7),
       KeywordMatch("carbon-14 dating", 8),
       KeywordMatch("carbon dating", 8),
       KeywordMatch("c-14 dating", 8),
       KeywordMatch("radiocarbon dating", 8),
       KeywordMatch("age determination", 8),
       KeywordMatch("fission vs fusion", 9),
       KeywordMatch("difference between fission and fusion", 9),
       KeywordMatch("fission fusion comparison", 9),
       KeywordMatch("nuclear energy comparison", 9) >>

mlKeywords ==
    << Chars("machine learning"), Chars("ml"), Chars("supervised"),
       Chars("unsupervised"), Chars("reinforcement"), Chars("algorithm"),
       Chars("traditional programming"), Chars("representation"), Chars("evaluation"),
       Chars("optimization"), Chars("neural networks"), Chars("deep learning"),
       Chars("artificial intelligence"), Chars("ai"), Chars("data science"),
       Chars("python"), Chars("applications"), Chars("advantages"),
       Chars("disadvantages") >>

nuclearKeywords ==
    << Chars("nuclear"), Chars("nuclei"), Chars("nucleus"),
       Chars("fission"), Chars("fusion"), Chars("radioactive"),
       Chars("radioactivity"), Chars("alpha decay"), Chars("beta decay"),
       Chars("gamma decay"), Chars("binding energy"), Chars("nuclear force"),
       Chars("proton"), Chars("neutron"), Chars("isotope"),
       Chars("uranium"), Chars("plutonium"), Chars("carbon-14"),
       Chars("c-14"), Chars("half-life"), Chars("decay constant"),
       Chars("nuclear reactor"), Chars("chain reaction"), Chars("moderator"),
       Chars("control rod"), Chars("q-value"), Chars("exoergic"),
       Chars("endoergic"), Chars("deuterium"), Chars("tritium"),
       Chars("plasma"), Chars("nuclear physics"), Chars("atomic nucleus"),
       Chars("nuclear reaction") >>

ALL_QA_DOMAINS == ML_RESEARCH_QA \o NUCLEAR_PHYSICS_QA

\* The answer of the first entry of a keyword table whose keywords the
\* question includes, "null" when there is none.
KeywordAnswer(question, matches, qa) ==
    IF \E n \in 1..Len(matches) : Includes(question, matches[n].keywords)
    THEN qa[matches[CHOOSE n \in 1..Len(matches) :
                       /\ Includes(question, matches[n].keywords)
                       /\ \A m \in 1..(n - 1) : ~Includes(question, matches[m].keywords)
                   ].index + 1].answer
    ELSE "null"

\* str.split(/\s+/).filter(w => w.length > 2)
IsLongWord(w) == Len(w) > 2
LongWords(str) == SelectSeq(Split(str, WsChars), IsLongWord)

\* calculateSimilarity on the two word lists: commonWords.length over
\* totalWords, as the pair of the two numbers; 0 over 1 when a list is empty.
WordSimilarity(words1, words2) ==
    IF Len(words1) = 0 \/ Len(words2) = 0 THEN [common |-> 0, total |-> 1]
    ELSE [common |-> Cardinality({ n \in 1..Len(words1) :
                                      \E m \in 1..Len(words2) : words2[m] = words1[n] }),
          total |-> IF Len(words1) > Len(words2) THEN Len(words1) ELSE Len(words2)]

calculateSimilarity(str1, str2) == WordSimilarity(LongWords(str1), LongWords(str2))

\* score > 0.8 and score > bestMatch.score on such pairs.
similarityThreshold == [common |-> 4, total |-> 5]
ScoreAbove(a, b) == a.common * b.total > b.common * a.total

\* The loop of findPredefinedAnswer over ALL_QA_DOMAINS from entry k on;
\* best is the entry of bestMatch, 0 for none.
RECURSIVE BestMatch(_, _, _)
BestMatch(question, k, best) ==
    IF k > Len(ALL_QA_DOMAINS) THEN best
    ELSE BestMatch(question, k + 1,
             IF /\ ScoreAbove(calculateSimilarity(question,
                                                  toLowerCase(ALL_QA_DOMAINS[k].question)),
                              similarityThreshold)
                /\ \/ best = 0
                   \/ ScoreAbove(calculateSimilarity(question,
                                                     toLowerCase(ALL_QA_DOMAINS[k].question)),
                                 calculateSimilarity(question,
                                                     toLowerCase(ALL_QA_DOMAINS[best].question)))
             THEN k ELSE best)

\* The fuzzy matching of findPredefinedAnswer.
SimilarAnswer(best) == IF best = 0 THEN "null" ELSE ALL_QA_DOMAINS[best].answer

\* findPredefinedAnswer behind userQuestion.toLowerCase().trim()
PredefinedAnswerOf(question) ==
    IF KeywordAnswer(question, mlKeywordMatches, ML_RESEARCH_QA) # "null"
    THEN KeywordAnswer(question, mlKeywordMatches, ML_RESEARCH_QA)
    ELSE IF KeywordAnswer(question, nuclearKeywordMatches, NUCLEAR_PHYSICS_QA) # "null"
    THEN KeywordAnswer(question, nuclearKeywordMatches, NUCLEAR_PHYSICS_QA)
    ELSE SimilarAnswer(BestMatch(question, 1, 0))

findPredefinedAnswer(userQuestion) == PredefinedAnswerOf(Trim(toLowerCase(userQuestion)))

isMLResearchQuestion(question) == IncludesAny(toLowerCase(question), mlKeywords)

isNuclearPhysicsQuestion(question) == IncludesAny(toLowerCase(question), nuclearKeywords)

\* PLAN_LIMITS.free.maxQuestions, the plan of createDefaultStats.
maxQuestions == 25

\* UsageTracker.updateUsage(userId, 'question') refuses the question.
QuestionLimitReached(asked) == maxQuestions > 0 /\ asked >= maxQuestions

\* if (predefinedAnswer) with every answer taken for one.
truthyAlways(predefinedAnswer) == TRUE

\* if (predefinedAnswer)
Truthy(predefinedAnswer) == predefinedAnswer # "null"

\* The knowledge base handleSendMessage names under a predefined answer.
KnowledgeBase(isML, isNuclear) ==
    IF isML /\ ~isNuclear THEN "ML Research Paper knowledge base"
    ELSE IF isNuclear /\ ~isML THEN "Nuclear Physics knowledge base"
    ELSE "Integrated Research Knowledge Base"

\* The document handleSendMessage cites as the source of a predefined answer.
DocumentName(isML, isNuclear) ==
    IF isML /\ ~isNuclear THEN "ML Research Paper.pdf"
    ELSE IF isNuclear /\ ~isML THEN "Nuclear Physics Paper.pdf"
    ELSE "Research Papers.pdf"

UserMessage(content) == [type |-> "user", content |-> content]

\* The assistant message of a predefined answer: the answer, the knowledge
\* base of the line added below it, and the document of its one source.
PredefinedMessage(content, predefinedAnswer) ==
    [type |-> "assistant",
     predefinedAnswer |-> predefinedAnswer,
     knowledgeBase |-> KnowledgeBase(isMLResearchQuestion(content),
                                     isNuclearPhysicsQuestion(content)),
     document |-> DocumentName(isMLResearchQuestion(content),
                               isNuclearPhysicsQuestion(content))]

\* The assistant message for the result of api.askQuestion.
ResultMessage(r) ==
    IF IsError(r)
    THEN [type |-> "assistant", error |-> r.error]
    ELSE [type |-> "assistant", answer |-> r.answer, sources |-> r.sources]

\* The number of questions one run of the chat sends.
MaxSent == 2

\* handleSendMessage up to its return or to the await of api.askQuestion.
handleSendMessage(content) ==
    IF user /\ QuestionLimitReached(questionsAsked)
    THEN /\ showUpgradePrompt' = TRUE
         /\ UNCHANGED << questionsAsked, messages, pending, result >>
    ELSE /\ Len(messages) + Len(pending) < 2 * MaxSent
         /\ questionsAsked' = IF user THEN questionsAsked + 1 ELSE questionsAsked
         /\ IF Truthy(findPredefinedAnswer(content))
            THEN /\ messages' = messages \o << UserMessage(content),
                                   PredefinedMessage(content, findPredefinedAnswer(content)) >>
                 /\ UNCHANGED << pending, result >>
            ELSE /\ messages' = Append(messages, UserMessage(content))
                 /\ pending' = Append(pending, content)
                 /\ UNCHANGED result
         /\ UNCHANGED showUpgradePrompt

\* handleSendMessage behind the await: the answer of api.askQuestion for
\* the question that has waited longest becomes an assistant message.
AnswerArrives ==
    /\ pending # << >>
    /\ result' = askQuestion(Head(pending), documents, requireDefined)
    /\ messages' = Append(messages, ResultMessage(result'))
    /\ pending' = Tail(pending)
    /\ UNCHANGED << questionsAsked, showUpgradePrompt >>

\* The questions typed into the chat.
ChatQuestions ==
    { Chars("What are the main types of ML?"),
      Chars("Explain nuclear fission"),
      Chars("limitations of fusion"),
      Chars("  SUMMARIZE  "),
      Chars("How does supervised learning differ from reinforcement learning?"),
      Chars("what is the capital of france?"),
      Chars("zzz") }

\* The chat of a page without documents; the usage of a signed-in user is
\* at its start or one question below the limit of the plan.
ChatInit ==
    /\ EmptyStore
    /\ processed = << >>
    /\ requireDefined \in BOOLEAN
    /\ call = NoCall
    /\ user \in BOOLEAN
    /\ questionsAsked \in (IF user THEN {0, maxQuestions - 1} ELSE {0})
    /\ showUpgradePrompt = FALSE
    /\ messages = << >>
    /\ pending = << >>
    /\ EmptyFaq
    /\ EmptyUi

Send ==
    /\ \E content \in ChatQuestions : handleSendMessage(content)
    /\ UNCHANGED << documents, storage, tasks, nextId, processed, requireDefined, call, user,
                    faqVars, uiVars >>

Reply ==
    /\ AnswerArrives
    /\ UNCHANGED << documents, storage, tasks, nextId, processed, requireDefined, call, user,
                    faqVars, uiVars >>

ChatNext == Send \/ Reply

ChatSpec == ChatInit /\ [][ChatNext]_vars

\* C6: when findPredefinedAnswer gives an answer for the question sent,
\* the reply is the message of exactly that answer and api.askQuestion is
\* not called; a question is handed to api.askQuestion only when
\* findPredefinedAnswer gives null for it.
C6_PredefinedBeforeRetrieval ==
    /\ [][\A content \in ChatQuestions :
             (handleSendMessage(content) /\ messages' # messages)
                => IF findPredefinedAnswer(content) # "null"
                   THEN /\ pending' = pending
                        /\ result' = result
                        /\ Len(messages') = Len(messages) + 2
                        /\ messages'[Len(messages')].type = "assistant"
                        /\ DOMAIN messages'[Len(messages')]
                              = {"type", "predefinedAnswer", "knowledgeBase", "document"}
                        /\ messages'[Len(messages')].predefinedAnswer
                              = findPredefinedAnswer(content)
                   ELSE /\ pending' = Append(pending, content)
                        /\ Len(messages') = Len(messages) + 1]_vars
    /\ [](\A k \in 1..Len(pending) : findPredefinedAnswer(pending[k]) = "null")
    /\ [](result.op = "askQuestion" => findPredefinedAnswer(result.question) = "null")

\* A question with a predefined answer found by similarity alone has been
\* answered from the table after a question that went to api.askQuestion
\* and came back.
C6_Witness ==
    /\ Len(messages) = 4
    /\ result.op = "askQuestion"
    /\ pending = << >>
    /\ messages[3].type = "user"
    /\ messages[3].content =
          Chars("How does supervised learning differ from reinforcement learning?")
    /\ DOMAIN messages[4] = {"type", "predefinedAnswer", "knowledgeBase", "document"}
    /\ messages[4].predefinedAnswer = "ML_RESEARCH_QA[8].answer"

\* ------------------------------------------------------------------------
\* The search and the answer as pure calls: call holds the arguments,
\* result what the call returns
\* ------------------------------------------------------------------------

\* The largest number of chunks of a sample document.
MaxChunks == 12

\* The chunk contents the sample documents are cut from.
ChunkPool ==
    << Chars("Cats are pets."), Chars("A cat is a pet."), Chars("Dogs bark."),
       Chars("The cat sat."), Chars("My cat sat."), Chars("A dog and a cat."),
       Chars("Concatenate lists."), Chars("The cat naps."), Chars("Cat."),
       Chars("One cat, two cats."), Chars("No cat here."), Chars("Birds sing.") >>

\* A stored document with the given chunk contents on one page.
SearchDocument(id, name, status, contents) ==
    [id |-> id, name |-> name, size |-> 1024, status |-> status,
     pageCount |-> IF status = "ready" THEN 1 ELSE 0,
     pages |-> IF status = "ready" THEN << [page |-> 1, text |-> Join(contents, << " " >>)] >>
               ELSE << >>,
     chunks |-> [n \in 1..Len(contents) |->
                    [content |-> contents[n], page |-> 1, chunkIndex |-> n - 1]],
     fullText |-> IF status = "ready" THEN Join(contents, << " " >>) ELSE << >>]

\* The document lists the search is called on.
SearchStores ==
    { << >> }
    \cup { << SearchDocument("doc_1", name, "ready", Prefix(ChunkPool, Min(k, Len(ChunkPool)))) >> :
              name \in { Chars("cats.pdf"), Chars("notes") }, k \in 0..MaxChunks }
    \cup { << SearchDocument("doc_1", Chars("cats.pdf"), status, << >>) >> :
              status \in { "processing", "error" } }
    \cup { << SearchDocument("doc_1", Chars("cats.pdf"), status, << >>),
              SearchDocument("doc_2", Chars("notes"), "ready", SubSeq(ChunkPool, 4, 8)) >> :
              status \in { "processing", "ready" } }
    \cup { << SearchDocument("doc_1", Chars("notes"), "ready", SubSeq(ChunkPool, 1, 5)),
              SearchDocument("doc_2", Chars("cats.pdf"), "ready", SubSeq(ChunkPool, 4, 9)) >> }

\* The queries the search is called with.
SearchQueries ==
    { Chars("cat"), Chars("What is a cat?"), Chars("define zzqq"), Chars("pdf"),
      Chars("zzqq"), Chars("dog cat"), Chars("the"), Chars("cat sat"), Chars("c++") }

SearchCalls ==
    [fn : { "EnhancedQuestionAnswering.generateAnswer", "PDFProcessor.generateAnswer",
            "searchDocuments" },
     query : SearchQueries, documents : SearchStores, hasRequire : BOOLEAN]

SearchInit ==
    /\ EmptyStore
    /\ processed = << >>
    /\ requireDefined = FALSE
    /\ call \in SearchCalls
    /\ EmptyChat
    /\ EmptyFaq
    /\ EmptyUi

\* A call of EnhancedQuestionAnswering.generateAnswer
SemanticAnswer ==
    /\ call.fn = "EnhancedQuestionAnswering.generateAnswer"
    /\ result.op = "none"
    /\ result' = [op |-> call.fn, value |-> EnhancedGenerateAnswer(call.query, call.documents)]
    /\ UNCHANGED << documents, storage, tasks, nextId, processed, requireDefined, call, chatVars, faqVars, uiVars >>

\* A call of PDFProcessor.generateAnswer
ProcessorAnswer ==
    /\ call.fn = "PDFProcessor.generateAnswer"
    /\ result.op = "none"
    /\ result' = [op |-> call.fn,
                   value |-> generateAnswer(call.query, call.documents, call.hasRequire)]
    /\ UNCHANGED << documents, storage, tasks, nextId, processed, requireDefined, call, chatVars, faqVars, uiVars >>

\* A call of searchDocuments
SearchDocuments ==
    /\ call.fn = "searchDocuments"
    /\ result.op = "none"
    /\ result' = [op |-> call.fn, value |-> searchDocuments(call.query, call.documents)]
    /\ UNCHANGED << documents, storage, tasks, nextId, processed, requireDefined, call, chatVars, faqVars, uiVars >>

SearchNext == SemanticAnswer \/ ProcessorAnswer \/ SearchDocuments

SearchSpec == SearchInit /\ [][SearchNext]_vars

\* The place of a result among the chunks of the ready documents.
C12_Position(r, docs) ==
    CHOOSE n \in 1..Len(ReadyChunks(docs)) :
        /\ ReadyChunks(docs)[n].chunk = r.chunk
        /\ ReadyChunks(docs)[n].document.id = r.document.id

\* results holds at most the given number of entries, each of a score
\* above 0, none before one of a higher score, and entries of the same
\* score in the order of their chunks.
C12_Ranked(results, docs, most) ==
    /\ Len(results) <= most
    /\ \A i \in 1..Len(results) : Positive(results[i].score)
    /\ \A i \in 1..Len(results) : \A j \in (i + 1)..Len(results) :
          /\ ~Higher(results[j].score, results[i].score)
          /\ ~Higher(results[i].score, results[j].score)
                => C12_Position(results[i], docs) < C12_Position(results[j], docs)

\* C12: performSemanticSearch returns at most 8 results and searchDocuments
\* at most 6, every result has a score above 0, the scores do not increase
\* along the list, and results of equal score keep the order of their
\* chunks.
C12_RankedResults ==
    /\ result.op = "EnhancedQuestionAnswering.generateAnswer"
         => C12_Ranked(result.value.searchResults, call.documents, 8)
    /\ (result.op = "searchDocuments" /\ ~result.value.threw)
         => C12_Ranked(result.value.results, call.documents, 6)

\* The semantic search has cut ten scored chunks or more down to 8, two
\* of them of the same score.
C12_Witness ==
    /\ result.op = "EnhancedQuestionAnswering.generateAnswer"
    /\ Len(ReadyChunks(call.documents)) > 9
    /\ Len(result.value.searchResults) = 8
    /\ \E i \in 1..7 :
          /\ ~Higher(result.value.searchResults[i].score, result.value.searchResults[i + 1].score)
          /\ ~Higher(result.value.searchResults[i + 1].score, result.value.searchResults[i].score)

\* The terms extracted from the query of the call.
C13_Terms == extractQueryTerms(toLowerCase(call.query))

\* No extracted term occurs in the content of a chunk of a ready document.
C13_NoTermInContent ==
    \A n \in 1..Len(ReadyChunks(call.documents)) : \A m \in 1..Len(C13_Terms) :
        ~Includes(toLowerCase(ReadyChunks(call.documents)[n].chunk.content), C13_Terms[m])

\* No chunk of a ready document has a bonus: no term occurs in the name of
\* its document and no pattern pair of getContextualScore matches the
\* terms and its content.
C13_NoBonus ==
    \A n \in 1..Len(ReadyChunks(call.documents)) :
        /\ MatchingWords(C13_Terms, toLowerCase(ReadyChunks(call.documents)[n].document.name)) = 0
        /\ ContextualScoreFrom(Join(C13_Terms, << " " >>),
                               toLowerCase(ReadyChunks(call.documents)[n].chunk.content), 1) = 0

\* The answer is a message of generateNoResultsAnswer over an empty
\* ranked list, with no sources and confidence 0.
C13_NoMatch(value) ==
    /\ value.searchResults = << >>
    /\ value.answer.template # "generateIntelligentAnswer"
    /\ value.sources = << >>
    /\ value.confidence.num = 0

C14_Apology == "I couldn't find specific information about ... This might be because"

C14_SomeReady == \E n \in 1..Len(call.documents) : call.documents[n].status = "ready"

\* The ranked list of the call is empty and the enhanced engine has
\* returned, directly or to PDFProcessor.generateAnswer.
C14_EmptyRanking ==
    /\ \/ result.op = "EnhancedQuestionAnswering.generateAnswer"
       \/ result.op = "PDFProcessor.generateAnswer" /\ call.hasRequire /\ call.documents # << >>
    /\ performSemanticSearch(call.query, call.documents) = << >>

\* No sources, confidence 0 and no line on the confidence.
C14_NothingFound ==
    /\ result.op = "EnhancedQuestionAnswering.generateAnswer"
         => result.value.sources = << >> /\ result.value.confidence.num = 0
    /\ result.op = "PDFProcessor.generateAnswer"
         => /\ ~result.value.threw
            /\ result.value.value.sources = << >>
            /\ result.value.value.answer.note = "none"

\* The message of the result.
C14_Message ==
    IF result.op = "PDFProcessor.generateAnswer" THEN result.value.value.answer
    ELSE result.value.answer

C15_Results == result.value.searchResults

C15_Confidence == result.value.confidence

\* Ten times a score, times the number of words it is a fraction of.
C15_Scaled(score) == score.points * score.totalWords + 2 * score.matched

\* The terms of the query that the content of the top result holds.
C15_Covered ==
    Cardinality({ m \in 1..Len(C13_Terms) :
                    Includes(toLowerCase(C15_Results[1].chunk.content), C13_Terms[m]) })

\* min(topScore / 10, 1), then 0.1 where the second score is above 0.8
\* times the top score, then 0.2 times the share of covered terms, each
\* times 100 * words * terms, where words is the number of words of the top
\* content and terms the number of terms.
C15_Sum(words, terms) ==
    Min(C15_Scaled(C15_Results[1].score), 100 * words) * terms
        + (IF Len(C15_Results) > 1
              /\ 10 * C15_Scaled(C15_Results[2].score) * words
                   > 8 * C15_Scaled(C15_Results[1].score) * C15_Results[2].score.totalWords
           THEN 10 * words * terms ELSE 0)
        + 20 * words * C15_Covered

\* C15: the confidence lies in [0, 1]; for a ranked list that is not empty
\* it is min(1, min(topScore / 10, 1) + 0.1 if the second score is within
\* 80% of the top score + 0.2 times the share of the query terms that the
\* top content holds); it is 0 exactly when the ranked list is empty.
C15_ConfidenceFormula ==
    result.op = "EnhancedQuestionAnswering.generateAnswer" =>
        /\ C15_Confidence.den > 0
        /\ 0 <= C15_Confidence.num /\ C15_Confidence.num <= C15_Confidence.den
        /\ (C15_Confidence.num = 0) <=> (C15_Results = << >>)
        /\ C15_Results # << >> =>
              C15_Confidence.num * 100 * C15_Results[1].score.totalWords * Len(C13_Terms)
                  = C15_Confidence.den
                      * Min(C15_Sum(C15_Results[1].score.totalWords, Len(C13_Terms)),
                            100 * C15_Results[1].score.totalWords * Len(C13_Terms))

\* A confidence strictly between 0 and 1 that holds the bonus of a close
\* second result and the coverage of one of two terms.
C15_Witness ==
    /\ result.op = "EnhancedQuestionAnswering.generateAnswer"
    /\ Len(C15_Results) > 1
    /\ SecondIsClose(C15_Results[1].score, C15_Results[2].score)
    /\ Len(C13_Terms) = 2 /\ C15_Covered = 1
    /\ 0 < C15_Confidence.num /\ C15_Confidence.num < C15_Confidence.den

\* ------------------------------------------------------------------------
\* FAQSystem
\* ------------------------------------------------------------------------

\* defaultFAQs of initializeDefaultFAQs; an answer is named, not spelt out.
defaultFAQs ==
    <<
       [question |-> Chars("What is the main topic of this document?"),
        answer |-> [template |-> "defaultFAQs[1].answer", about |-> << >>],
        category |-> "Summary", popularity |-> 100,
        keywords |-> << Chars("main"), Chars("topic"), Chars("subject"), Chars("theme"), Chars("about") >>],
       [question |-> Chars("Can you summarize the key points?"),
        answer |-> [template |-> "defaultFAQs[2].answer", about |-> << >>],
        category |-> "Summary", popularity |-> 95,
        keywords |-> << Chars("summarize"), Chars("key points"), Chars("main points"), Chars("overview") >>],
       [question |-> Chars("What are the research methods used?"),
        answer |-> [template |-> "defaultFAQs[3].answer", about |-> << >>],
        category |-> "Research Methods", popularity |-> 80,
        keywords |-> << Chars("research methods"), Chars("methodology"), Chars("approach"), Chars("technique") >>],
       [question |-> Chars("What are the main findings or results?"),
        answer |-> [template |-> "defaultFAQs[4].answer", about |-> << >>],
        category |-> "Results", popularity |-> 85,
        keywords |-> << Chars("findings"), Chars("results"), Chars("outcomes"), Chars("conclusions") >>],
       [question |-> Chars("What are the practical applications?"),
        answer |-> [template |-> "defaultFAQs[5].answer", about |-> << >>],
        category |-> "Applications", popularity |-> 75,
        keywords |-> << Chars("applications"), Chars("practical"), Chars("real-world"), Chars("implementation") >>],
       [question |-> Chars("What are the limitations of this study?"),
        answer |-> [template |-> "defaultFAQs[6].answer", about |-> << >>],
        category |-> "Analysis", popularity |-> 70,
        keywords |-> << Chars("limitations"), Chars("constraints"), Chars("weaknesses"), Chars("gaps") >>],
       [question |-> Chars("How does this relate to other research?"),
        answer |-> [template |-> "defaultFAQs[7].answer", about |-> << >>],
        category |-> "Context", popularity |-> 65,
        keywords |-> << Chars("related research"), Chars("comparison"), Chars("context"), Chars("literature") >>],
       [question |-> Chars("What are the theoretical frameworks mentioned?"),
        answer |-> [template |-> "defaultFAQs[8].answer", about |-> << >>],
        category |-> "Theory", popularity |-> 60,
        keywords |-> << Chars("theoretical framework"), Chars("theory"), Chars("model"), Chars("framework") >>],
       [question |-> Chars("What data sources were used?"),
        answer |-> [template |-> "defaultFAQs[9].answer", about |-> << >>],
        category |-> "Data", popularity |-> 55,
        keywords |-> << Chars("data sources"), Chars("dataset"), Chars("data"), Chars("sources") >>],
       [question |-> Chars("What are the future research directions?"),
        answer |-> [template |-> "defaultFAQs[10].answer", about |-> << >>],
        category |-> "Future Work", popularity |-> 50,
        keywords |-> << Chars("future research"), Chars("future work"), Chars("recommendations"), Chars("directions") >>]
    >>

\* A FAQ item. generateId draws the id at random: the number of the call
\* that drew it stands for it.
FAQItem(id, faq, lastAsked, timesAsked) ==
    [id |-> id, question |-> faq.question, answer |-> faq.answer, category |-> faq.category,
     popularity |-> faq.popularity, keywords |-> faq.keywords,
     lastAsked |-> lastAsked, timesAsked |-> timesAsked]

\* initializeDefaultFAQs from defaultFAQs[k] on: a default question that
\* no item holds is added with timesAsked set to its popularity.
RECURSIVE initializeDefaultFAQs(_, _, _)
initializeDefaultFAQs(items, k, date) ==
    IF k > Len(defaultFAQs) THEN items
    ELSE initializeDefaultFAQs(
             IF \E n \in 1..Len(items) : items[n].question = defaultFAQs[k].question
             THEN items
             ELSE Append(items, FAQItem(Len(items) + 1, defaultFAQs[k], date,
                                        defaultFAQs[k].popularity)),
             k + 1, date)

\* categoryKeywords of categorizeQuestion, in the order of its entries
categoryKeywords ==
    <<
       [category |-> "Summary",
        keywords |-> << Chars("summarize"), Chars("summary"), Chars("main"), Chars("topic"), Chars("overview"), Chars("about"), Chars("key points") >>],
       [category |-> "Research Methods",
        keywords |-> << Chars("method"), Chars("methodology"), Chars("approach"), Chars("technique"), Chars("procedure") >>],
       [category |-> "Results",
        keywords |-> << Chars("results"), Chars("findings"), Chars("outcomes"), Chars("conclusion"), Chars("discovered") >>],
       [category |-> "Analysis",
        keywords |-> << Chars("analyze"), Chars("analysis"), Chars("examine"), Chars("evaluate"), Chars("assess"), Chars("limitations") >>],
       [category |-> "Applications",
        keywords |-> << Chars("application"), Chars("practical"), Chars("use"), Chars("implement"), Chars("apply") >>],
       [category |-> "Theory",
        keywords |-> << Chars("theory"), Chars("theoretical"), Chars("framework"), Chars("model"), Chars("concept") >>],
       [category |-> "Data",
        keywords |-> << Chars("data"), Chars("dataset"), Chars("source"), Chars("information"), Chars("evidence") >>],
       [category |-> "Context",
        keywords |-> << Chars("context"), Chars("background"), Chars("related"), Chars("comparison"), Chars("literature") >>],
       [category |-> "Future Work",
        keywords |-> << Chars("future"), Chars("recommendation"), Chars("direction"), Chars("further"), Chars("next") >>]
    >>

categorizeQuestion(question) ==
    IF \E k \in 1..Len(categoryKeywords) : IncludesAny(question, categoryKeywords[k].keywords)
    THEN categoryKeywords[CHOOSE k \in 1..Len(categoryKeywords) :
                             /\ IncludesAny(question, categoryKeywords[k].keywords)
                             /\ \A j \in 1..(k - 1) :
                                   ~IncludesAny(question, categoryKeywords[j].keywords)].category
    ELSE "General"

\* The words of str1 that are among the words of str2, each as often as
\* str1 holds it, over the number of different words of both.
WordOverlap(words1, words2) ==
    Fraction(Cardinality({ n \in 1..Len(words1) : \E m \in 1..Len(words2) : words2[m] = words1[n] }),
             Cardinality({ words1[n] : n \in 1..Len(words1) }
                             \cup { words2[m] : m \in 1..Len(words2) }))

\* calculateSimilarity of the FAQSystem
FAQSystem_calculateSimilarity(str1, str2) == WordOverlap(Split(str1, WsChars), Split(str2, WsChars))

\* A similarity above tenths / 10
Above(similarity, tenths) == 10 * similarity.num > tenths * similarity.den

\* The test of findSimilarFAQ on one item
IsSimilarFAQ(question, faq) ==
    Above(FAQSystem_calculateSimilarity(question, toLowerCase(faq.question)), 7)

\* findSimilarFAQ: the place of the first similar item, 0 for undefined
findSimilarFAQ(items, question) ==
    IF \E n \in 1..Len(items) : IsSimilarFAQ(question, items[n])
    THEN CHOOSE n \in 1..Len(items) :
             /\ IsSimilarFAQ(question, items[n])
             /\ \A m \in 1..(n - 1) : ~IsSimilarFAQ(question, items[m])
    ELSE 0

\* The number of entries shouldCreateFAQ looks at.
recentQuestions == 100

shouldCreateFAQ(history, question) ==
    Cardinality({ n \in 1..Min(Len(history), recentQuestions) :
                    Above(FAQSystem_calculateSimilarity(question, toLowerCase(history[n].question)), 6) })
        >= 2

\* stopWords of extractKeywords
FAQSystem_stopWords ==
    { Chars("what"), Chars("how"), Chars("why"), Chars("when"), Chars("where"), Chars("who"), Chars("is"), Chars("are"), Chars("the"), Chars("a"), Chars("an"), Chars("and"), Chars("or"), Chars("but"), Chars("in"), Chars("on"), Chars("at"), Chars("to"), Chars("for"), Chars("of"), Chars("with"), Chars("by") }

IsKeyword(word) == Len(word) > 2 /\ word \notin FAQSystem_stopWords

extractKeywords(question) == Prefix(SelectSeq(Split(question, WsChars), IsKeyword), 10)

\* The item createNewFAQ pushes.
NewFAQ(id, originalQuestion, normalizedQuestion, date) ==
    FAQItem(id,
            [question |-> originalQuestion,
             answer |-> [template |-> "This is a frequently asked question",
                         about |-> Join(Prefix(extractKeywords(normalizedQuestion), 3), << ",", " " >>)],
             category |-> categorizeQuestion(normalizedQuestion),
             popularity |-> 5,
             keywords |-> extractKeywords(normalizedQuestion)],
            date, 1)

\* The popularity above which trackQuestion does not raise it.
maxPopularity == 100

\* The item asked again with its popularity raised by one.
askedAgainUncapped(faq, date) ==
    [faq EXCEPT !.timesAsked = @ + 1, !.lastAsked = date, !.popularity = @ + 1]

\* existingFAQ.timesAsked++, lastAsked and popularity of trackQuestion
AskedAgain(faq, date) ==
    [faq EXCEPT !.timesAsked = @ + 1, !.lastAsked = date,
                !.popularity = Min(maxPopularity, @ + 1)]

\* The number of entries trackQuestion keeps.
historyLimit == 1000

\* The items of trackQuestion behind its search for a similar item, which
\* found the item at place existing or, with 0, none.
TrackedItems(items, history, question, normalizedQuestion, existing, date) ==
    IF existing > 0 THEN [items EXCEPT ![existing] = AskedAgain(@, date)]
    ELSE IF shouldCreateFAQ(history, normalizedQuestion)
    THEN Append(items, NewFAQ(Len(items) + 1, question, normalizedQuestion, date))
    ELSE items

\* The new entry put behind the history.
appendedHistory(history, question, normalizedQuestion, date) ==
    Append(history, [question |-> question, timestamp |-> date,
                     category |-> categorizeQuestion(normalizedQuestion)])

\* The history of trackQuestion
TrackedHistory(history, question, normalizedQuestion, date) ==
    Prefix(<< [question |-> question, timestamp |-> date,
               category |-> categorizeQuestion(normalizedQuestion)] >> \o history,
           historyLimit)

\* trackQuestion at the time date
trackQuestion(question, date) ==
    /\ questionHistory' = TrackedHistory(questionHistory, question, Trim(toLowerCase(question)), date)
    /\ faqItems' = TrackedItems(faqItems, questionHistory', question, Trim(toLowerCase(question)),
                                findSimilarFAQ(faqItems, Trim(toLowerCase(question))), date)

\* The largest number of trackQuestion calls of a run.
MaxTracked == 4

\* The questions tracked.
FaqQuestions ==
    { Chars("How do cats purr loudly"), Chars("how do cats purr softly"),
      Chars("how do cats purr daily"), Chars("do cats purr softly"),
      Chars("do cats purr loudly"),
      Chars("Why do birds sing in the morning"), Chars("why do birds sing in the evening"),
      Chars("What is the main topic of this document?") }

\* The history an earlier session has stored: a first question and then
\* one other question again and again, the limit less one in all.
StoredHistory ==
    [n \in 1..(historyLimit - 1) |->
        [question |-> IF n = historyLimit - 1 THEN Chars("first question")
                      ELSE Chars("earlier question"),
         timestamp |-> 0, category |-> "General"]]

\* The items that session has stored: the default ones and the one of the
\* question asked again and again.
StoredItems ==
    Append(initializeDefaultFAQs(<< >>, 1, 0),
           [NewFAQ(Len(defaultFAQs) + 1, Chars("earlier question"), Chars("earlier question"), 0)
               EXCEPT !.timesAsked = historyLimit - 3, !.popularity = maxPopularity])

\* The FAQSystem as its constructor leaves it, with nothing stored or with
\* what the earlier session has stored.
FaqInit ==
    /\ EmptyStore
    /\ processed = << >>
    /\ requireDefined = FALSE
    /\ call = NoCall
    /\ EmptyChat
    /\ EmptyUi
    /\ now = 1
    /\ \/ questionHistory = << >> /\ faqItems = initializeDefaultFAQs(<< >>, 1, now)
       \/ questionHistory = StoredHistory /\ faqItems = initializeDefaultFAQs(StoredItems, 1, now)

\* A call of trackQuestion; the state it saves to the storage is the state
\* it leaves.
Track ==
    /\ now <= MaxTracked
    /\ \E question \in FaqQuestions : trackQuestion(question, now)
    /\ now' = now + 1
    /\ UNCHANGED << documents, storage, tasks, nextId, result, processed, requireDefined,
                    call, chatVars, uiVars >>

FaqNext == Track

FaqSpec == FaqInit /\ [][FaqNext]_vars

\* The FAQSystem started with nothing stored: every entry of the history
\* is of this run.
C16_FromDefaults == Len(questionHistory) = now - 1

\* The set of the words of a question as trackQuestion normalizes it
C16_Words(question) ==
    { Split(Trim(toLowerCase(question)), WsChars)[n] :
        n \in 1..Len(Split(Trim(toLowerCase(question)), WsChars)) }

\* A Jaccard overlap of the word sets of at least 0.6
C16_Similar(a, b) ==
    10 * Cardinality(C16_Words(a) \cap C16_Words(b))
        >= 6 * Cardinality(C16_Words(a) \cup C16_Words(b))

\* The questions tracked so far are different phrasings, similar to one
\* another, none of them similar to a default FAQ.
C16_Phrasings ==
    /\ C16_FromDefaults
    /\ \A n \in 1..Len(questionHistory) :
          /\ findSimilarFAQ(initializeDefaultFAQs(<< >>, 1, 1),
                            Trim(toLowerCase(questionHistory[n].question))) = 0
          /\ \A m \in (n + 1)..Len(questionHistory) :
                /\ C16_Words(questionHistory[n].question) # C16_Words(questionHistory[m].question)
                /\ C16_Similar(questionHistory[n].question, questionHistory[m].question)

\* C16: from the default FAQ set on, different phrasings of a question
\* that are similar to one another (Jaccard >= 0.6) and to no default FAQ
\* create no item at the first occurrence, one item with timesAsked 1 at
\* the second, and raise the timesAsked of that item by 1 at every later
\* occurrence without a further item.
C16_PromotionOfPhrasings ==
    C16_Phrasings =>
        IF Len(questionHistory) < 2 THEN Len(faqItems) = Len(defaultFAQs)
        ELSE /\ Len(faqItems) = Len(defaultFAQs) + 1
             /\ faqItems[Len(faqItems)].timesAsked = Len(questionHistory) - 1

\* C17 as stated: from the default FAQ set on, timesAsked and popularity of
\* every item never decrease and never exceed 100.
C17_NeverAbove100 ==
    /\ [](C16_FromDefaults =>
             \A n \in 1..Len(faqItems) :
                 faqItems[n].timesAsked <= 100 /\ faqItems[n].popularity <= 100)
    /\ [][C16_FromDefaults =>
             /\ Len(faqItems') >= Len(faqItems)
             /\ \A n \in 1..Len(faqItems) :
                   /\ faqItems'[n].timesAsked >= faqItems[n].timesAsked
                   /\ faqItems'[n].popularity >= faqItems[n].popularity]_vars

\* C17, amended: from the default FAQ set on, timesAsked and popularity of
\* every item never decrease, and popularity never exceeds 100.
C17_MonotoneAndPopularityCapped ==
    /\ [](C16_FromDefaults =>
             \A n \in 1..Len(faqItems) : faqItems[n].popularity <= 100)
    /\ [][C16_FromDefaults =>
             /\ Len(faqItems') >= Len(faqItems)
             /\ \A n \in 1..Len(faqItems) :
                   /\ faqItems'[n].timesAsked >= faqItems[n].timesAsked
                   /\ faqItems'[n].popularity >= faqItems[n].popularity]_vars

\* The default item of popularity 100 has been asked again: its
\* timesAsked has gone up and its popularity has stayed.
C17_Witness ==
    /\ C16_FromDefaults
    /\ faqItems[1].timesAsked > 100
    /\ faqItems[1].popularity = 100
    /\ \E n \in 1..Len(faqItems) : faqItems[n].timesAsked = 2 /\ faqItems[n].popularity = 6

\* C18: after n calls of trackQuestion the history holds at most 1000
\* entries, the questions of the last min(n, 1000) calls with the newest
\* first: every call puts its question first, moves the others back by one
\* and drops what goes beyond 1000, the oldest.
C18_HistoryKeepsNewest ==
    /\ [](/\ Len(questionHistory) <= 1000
          /\ \A n \in 1..Len(questionHistory) :
                n < now => questionHistory[n].timestamp = now - n)
    /\ [][\/ UNCHANGED questionHistory
          \/ /\ Len(questionHistory') = Min(Len(questionHistory) + 1, 1000)
             /\ questionHistory'[1].question \in FaqQuestions
             /\ \A n \in 2..Len(questionHistory') :
                   questionHistory'[n] = questionHistory[n - 1]]_vars

\* The history is full and the oldest stored question has left it.
C18_Witness ==
    /\ Len(questionHistory) = 1000
    /\ questionHistory[1000].question = Chars("earlier question")
    /\ questionHistory[1].timestamp = now - 1
    /\ questionHistory[2].timestamp = now - 2

\* The id is the id of no document, in the store or in the storage.
C19_Unknown(id) == id \notin DocIds(documents) /\ id \notin DocIds(storage)

\* C19: a deleteDocument or a getDocumentContent for an id that is in the
\* store of no document returns the error of a document not found, not a
\* result with data, and leaves the store as it is.
C19_UnknownIdIsNotFound ==
    [][\A id \in 0..(MaxDocs - 1) :
          (C19_Unknown(id) /\ (DeleteDocument(id) \/ GetDocumentContent(id)))
             => /\ IsError(result')
                /\ result'.error = "Document not found"
                /\ documents' = documents
                /\ storage' = storage]_vars

\* ------------------------------------------------------------------------
\* App: the document list, handleUpload and the polling of loadDocuments
\* ------------------------------------------------------------------------

\* The largest number of loadDocuments calls waiting at one time.
MaxLoads == 2

\* tempDoc of handleUpload. Math.random draws its id: the negated number
\* of the handleUpload call stands for it, apart from every id of the
\* processor.
TempDocument(tempId, file) ==
    [id |-> tempId, name |-> file.name, size |-> file.size, status |-> "processing",
     pageCount |-> 0]

\* A message handleUpload puts into the chat, named by its first words.
UploadMessage(content, file) == [type |-> "assistant", content |-> content, file |-> file.name]

\* handleUpload for one accepted file up to its first await: the
\* temporary document and the processing message are put in and
\* extractPDFTextAndSummarize is awaited. The user is within the limits of
\* the plan; a file of another type or above 10 MB sets the error line
\* alone.
handleUpload(file) ==
    /\ uploadError(file) = "none"
    /\ Len(uploads) < MaxDocs
    /\ uiDocuments' = Append(uiDocuments, TempDocument(-(Len(uploads) + 1), file))
    /\ messages' = Append(messages, UploadMessage("Processing", file))
    /\ uploads' = Append(uploads, [tempId |-> -(Len(uploads) + 1), file |-> file,
                                   at |-> "extractPDFTextAndSummarize", task |-> -1])
    /\ UNCHANGED << documents, storage, tasks, nextId, result, processed, requireDefined,
                    call, user, questionsAsked, showUpgradePrompt, pending, loads, documentsProcessed, faqVars >>

\* The summaries extractPDFTextAndSummarize ends with: a summary, no
\* summary, an exception.
SummaryMessages == { "summary", "has been uploaded successfully", "I couldn't generate an automatic summary" }

\* handleUpload from the end of extractPDFTextAndSummarize to the await in
\* api.uploadDocument: the message on the summary, then uploadDocument up
\* to the await in processFile.
SummaryArrives(k, summary) ==
    /\ uploads[k].at = "extractPDFTextAndSummarize"
    /\ messages' = Append(messages, UploadMessage(summary, uploads[k].file))
    /\ UploadDocument(uploads[k].file)
    /\ uploads' = [uploads EXCEPT ![k].at = "api.uploadDocument", ![k].task = nextId]
    /\ UNCHANGED << call, user, questionsAsked, showUpgradePrompt, pending, uiDocuments,
                    loads, documentsProcessed, faqVars >>

\* setDocuments(prev => prev.map(d => d.id === tempDoc.id ? ... : d)) for
\* the result of api.uploadDocument
ReplaceTemporary(docs, tempId, uploaded) ==
    [n \in 1..Len(docs) |->
        IF docs[n].id # tempId THEN docs[n]
        ELSE IF IsError(uploaded) THEN [docs[n] EXCEPT !.status = "error"]
        ELSE uploaded.document]

\* The end of processFile and of api.uploadDocument and, behind them, the
\* rest of handleUpload: the temporary document is replaced and the ready
\* message put in.
UploadArrives(k, resp) ==
    /\ uploads[k].at = "api.uploadDocument"
    /\ ProcessFileResume([id |-> uploads[k].task, file |-> uploads[k].file], resp)
    /\ uiDocuments' = ReplaceTemporary(uiDocuments, uploads[k].tempId, result')
    /\ messages' = IF IsError(result') THEN messages
                   ELSE Append(messages, UploadMessage("is now ready for questions", uploads[k].file))
    /\ uploads' = [uploads EXCEPT ![k].at = "done"]
    /\ UNCHANGED << call, user, questionsAsked, showUpgradePrompt, pending, loads, documentsProcessed, faqVars >>

\* The callback of the interval checkProcessing: loadDocuments up to its
\* await where a document of the list is processing.
checkProcessing ==
    /\ \E n \in 1..Len(uiDocuments) : uiDocuments[n].status = "processing"
    /\ loads < MaxLoads
    /\ loads' = loads + 1
    /\ UNCHANGED << documents, storage, tasks, nextId, result, processed, requireDefined,
                    call, chatVars, uiDocuments, uploads, documentsProcessed, faqVars >>

\* api.getDocuments behind its delay and loadDocuments behind it: the list
\* is replaced by the documents returned.
loadDocuments ==
    /\ loads > 0
    /\ GetDocuments
    /\ uiDocuments' = result'.documents
    /\ loads' = loads - 1
    /\ UNCHANGED << call, chatVars, uploads, documentsProcessed, faqVars >>

UiInit ==
    /\ EmptyStore
    /\ processed = ProcessedDocuments
    /\ requireDefined = FALSE
    /\ call = NoCall
    /\ EmptyChat
    /\ EmptyFaq
    /\ EmptyUi

UiUpload == \E file \in { SmallPdf, HugePdf, TextFile } : handleUpload(file)

UiSummary == \E k \in 1..Len(uploads) : \E summary \in SummaryMessages : SummaryArrives(k, summary)

\* The answers of the PDFRest API to the uploads of the list: a text, and
\* a page list on which processFile throws.
UiResponses == { resp \in Responses : (resp.kind = "direct" /\ resp.pageCount = 3) \/ ~resp.strings }

UiUploaded == \E k \in 1..Len(uploads) : \E resp \in UiResponses : UploadArrives(k, resp)

UiNext == UiUpload \/ UiSummary \/ UiUploaded \/ checkProcessing \/ loadDocuments

UiSpec == UiInit /\ [][UiNext]_vars

\* Every handleUpload call has ended, no loadDocuments call is waiting and
\* no document of the list is processing, so that the interval starts none.
C20_Settled ==
    /\ \A k \in 1..Len(uploads) : uploads[k].at = "done"
    /\ loads = 0
    /\ \A n \in 1..Len(uiDocuments) : uiDocuments[n].status # "processing"

\* C20: whatever the order of the steps of handleUpload and of the reloads
\* of the polling, once the processing of an accepted PDF has ended and
\* the list has settled, the list holds the document of every upload as
\* ready or error and holds no document that is processing.
C20_SettledListHoldsUploads ==
    C20_Settled =>
        \A k \in 1..Len(uploads) :
            \E n \in 1..Len(uiDocuments) :
                /\ uiDocuments[n].id \in { uploads[k].tempId, uploads[k].task }
                /\ uiDocuments[n].status \in { "ready", "error" }

\* ------------------------------------------------------------------------
\* TextProcessor.processText
\* ------------------------------------------------------------------------

\* The characters the artifact class of calculateTextQuality leaves alone,
\* [\w\s.,!?;:'"()\-] and two dashes that are not in TextAlphabet.
PlainChars == WordChars \cup WsChars \cup PunctChars \cup {"'", "\"", "(", ")", "-"}

\* text.match(/\s{3,}|[a-z][A-Z]|\w[.!?][a-z]/g): the number of matches
\* from index i on.
RECURSIVE SpacingIssues(_, _)
SpacingIssues(text, i) ==
    IF i > Len(text) THEN 0
    ELSE LET m == IF FirstNotIn(text, i, WsChars) - i >= 3
                  THEN FirstNotIn(text, i, WsChars) - i
                  ELSE IF i + 1 <= Len(text) /\ text[i] \in LowerChars
                          /\ text[i + 1] \in UpperChars
                  THEN 2
                  ELSE IF i + 2 <= Len(text) /\ text[i] \in WordChars
                          /\ text[i + 1] \in TermChars /\ text[i + 2] \in LowerChars
                  THEN 3
                  ELSE 0
         IN  IF m = 0 THEN SpacingIssues(text, i + 1) ELSE 1 + SpacingIssues(text, i + m)

\* The number of parts that filter(keep) keeps.
CountKept(parts, keep(_)) == Cardinality({ n \in 1..Len(parts) : keep(parts[n]) })

\* calculateTextQuality, in hundredths: 50 stands for the score 0.5.
calculateTextQuality(text, originalLength) ==
    LET length == IF Len(text) > 1 THEN Len(text) ELSE 1
        original == IF originalLength > 1 THEN originalLength ELSE 1
        uniqueChars == Cardinality({ toLowerCase(text)[i] : i \in 1..Len(text) })
        IsWord(w) == Len(w) > 0
        wordCount == CountKept(Split(text, WsChars), IsWord)
        IsSentence(s) == Len(Trim(s)) > 10
        sentences == CountKept(Split(text, TermChars), IsSentence)
        artifactCount == Cardinality({ i \in 1..Len(text) : text[i] \notin PlainChars })
        score == 50
                 + (IF 10 * Len(text) > 9 * original THEN 10
                    ELSE IF 10 * Len(text) > 8 * original THEN 5 ELSE 0)
                 + (IF uniqueChars > 20 THEN 10 ELSE 0)
                 + (IF wordCount > 100 THEN 10 ELSE 0)
                 + (IF wordCount > 500 THEN 10 ELSE 0)
                 + (IF sentences > 5 THEN 5 ELSE 0)
                 + (IF sentences > 20 THEN 5 ELSE 0)
                 + (IF 100 * artifactCount < length THEN 10
                    ELSE IF 100 * artifactCount > 5 * length THEN -10 ELSE 0)
                 + (IF 1000 * SpacingIssues(text, 1) < Len(text) THEN 10 ELSE 0)
    IN  IF score < 0 THEN 0 ELSE IF score > 100 THEN 100 ELSE score

\* The notes processText pushes for the cleaning steps that changed the
\* text: fixed is the text behind step 1, corrected behind step 2,
\* normalized behind step 3 and standardized behind step 4.
Improvements(text, fixed, corrected, normalized, standardized) ==
    (IF Len(fixed) # Len(text) THEN << "Fixed text encoding issues" >> ELSE << >>)
    \o (IF corrected # fixed THEN << "Corrected OCR recognition errors" >> ELSE << >>)
    \o (IF normalized # corrected
        THEN << "Normalized whitespace and line breaks" >> ELSE << >>)
    \o (IF standardized # normalized THEN << "Standardized text formatting" >> ELSE << >>)

\* The return statement of the try block of processText.
CleanedResult(text, fixed, corrected, normalized, standardized) ==
    [op |-> "processText",
     cleanedText |-> standardized,
     improvementsApplied |-> Improvements(text, fixed, corrected, normalized, standardized),
     qualityScore |-> calculateTextQuality(standardized, Len(text)),
     warned |-> FALSE]

\* The catch block of processText left out: the error leaves the call.
rethrown(text) ==
    [op |-> "throws", cleanedText |-> << >>, improvementsApplied |-> << >>,
     qualityScore |-> 0, warned |-> FALSE]

\* The catch block of processText: console.warn and the original text.
CaughtResult(text) ==
    [op |-> "processText",
     cleanedText |-> text,
     improvementsApplied |-> << "Error occurred during processing" >>,
     qualityScore |-> 50,
     warned |-> TRUE]

\* Steps 1 to 4 of processText, each under its option.
FixedText(text, config) == IF config.fixEncoding THEN fixEncodingIssues(text) ELSE text
CorrectedText(text, config) == IF config.removeOCRErrors THEN correctOCRErrors(text) ELSE text
NormalizedText(text, config) == IF config.normalizeWhitespace THEN normalizeWhitespace(text) ELSE text
StandardizedText(text, config) == IF config.standardizeFormatting THEN standardizeFormatting(text) ELSE text

\* processText with preserveStructure and expandAcronyms off, as quickClean
\* calls it. isString is FALSE for a text that is no string (a number of a
\* page list of the API): the first step that is on raises "replace is not
\* a function" on it, and with every step off calculateTextQuality raises
\* "toLowerCase is not a function"; text.length, read before the try
\* block, is undefined and raises nothing.
processText(text, isString, config) ==
    IF ~isString
    THEN CaughtResult(text)
    ELSE CleanedResult(
             text,
             FixedText(text, config),
             CorrectedText(FixedText(text, config), config),
             NormalizedText(CorrectedText(FixedText(text, config), config), config),
             StandardizedText(
                 NormalizedText(CorrectedText(FixedText(text, config), config), config),
                 config))

\* The options of quickClean, every step off, and one step on at a time.
TextOptions ==
    { [fixEncoding |-> f, removeOCRErrors |-> o, normalizeWhitespace |-> w,
       standardizeFormatting |-> s] :
          f \in BOOLEAN, o \in BOOLEAN, w \in BOOLEAN, s \in BOOLEAN }

\* The longest text handed to processText.
MaxProcessed == 3

\* The calls: the texts of at most MaxProcessed characters that the steps
\* change (an ellipsis, "rn", blanks, full stops), and two numbers.
TextCalls ==
    { [fn |-> "processText", text |-> text, isString |-> TRUE, config |-> config] :
          text \in UNION { [1..k -> {"r", "n", " ", ".", Ellipsis}] : k \in 0..MaxProcessed },
          config \in TextOptions }
    \cup { [fn |-> "processText", text |-> text, isString |-> FALSE, config |-> config] :
              text \in { << "5" >>, << "1", "2" >> }, config \in TextOptions }

TextInit ==
    /\ EmptyStore
    /\ processed = << >>
    /\ requireDefined = FALSE
    /\ call \in TextCalls
    /\ EmptyChat
    /\ EmptyFaq
    /\ EmptyUi

ProcessText ==
    /\ call.fn = "processText"
    /\ result.op = "none"
    /\ result' = processText(call.text, call.isString, call.config)
    /\ UNCHANGED << documents, storage, tasks, nextId, processed, requireDefined, call, chatVars, faqVars, uiVars >>

TextNext == ProcessText

TextSpec == TextInit /\ [][TextNext]_vars

\* C21: processText never fails hard: a call on which a step raises an
\* error returns, and what it returns is the text it was given as
\* cleanedText, the quality score 0.5 and the one note that an error
\* occurred; a call on which no step raises returns without that note.
C21_ErrorGivesOriginal ==
    result.op # "none" =>
        /\ result.op = "processText"
        /\ ~call.isString =>
               /\ result.cleanedText = call.text
               /\ result.qualityScore = 50
               /\ result.improvementsApplied = << "Error occurred during processing" >>
        /\ call.isString =>
               /\ ~result.warned
               /\ "Error occurred during processing"
                      \notin { result.improvementsApplied[n] :
                                   n \in 1..Len(result.improvementsApplied) }

\* processText has returned from its catch block.
C21_Witness ==
    /\ result.op = "processText"
    /\ result.warned
    /\ ~call.isString
    /\ call.config.fixEncoding

\* ------------------------------------------------------------------------
\* findPredefinedAnswer, applied to questions
\* ------------------------------------------------------------------------

\* The question with the word at place i replaced by another word.
WithWord(question, i, word) ==
    Join([n \in 1..Len(Split(question, WsChars)) |->
              IF n = i THEN word ELSE Split(question, WsChars)[n]], << " " >>)

\* The questions: those typed into the chat, every canonical question in
\* lower case with one of its words replaced by "zzz", and the question on
\* carbon dating with a sixth word in it.
PredefinedQuestions ==
    ChatQuestions
    \cup UNION { { WithWord(toLowerCase(ALL_QA_DOMAINS[k].question), i, Chars("zzz")) :
                     i \in 1..Len(Split(ALL_QA_DOMAINS[k].question, WsChars)) } :
                 k \in 1..Len(ALL_QA_DOMAINS) }
    \cup { Chars("How does Carbon-14 zzz dating work?") }

PredefinedInit ==
    /\ EmptyStore
    /\ processed = << >>
    /\ requireDefined = FALSE
    /\ call \in { [fn |-> "findPredefinedAnswer", question |-> question] :
                      question \in PredefinedQuestions }
    /\ EmptyChat
    /\ EmptyFaq
    /\ EmptyUi

FindPredefinedAnswer ==
    /\ call.fn = "findPredefinedAnswer"
    /\ result.op = "none"
    /\ result' = [op |-> "findPredefinedAnswer", value |-> findPredefinedAnswer(call.question)]
    /\ UNCHANGED << documents, storage, tasks, nextId, processed, requireDefined, call, chatVars, faqVars, uiVars >>

PredefinedNext == FindPredefinedAnswer

PredefinedSpec == PredefinedInit /\ [][PredefinedNext]_vars

\* The question as findPredefinedAnswer compares it.
C22_Question == Trim(toLowerCase(call.question))

\* The question holds one of the keyword substrings of the two tables.
C22_HasKeyword ==
    \/ \E n \in 1..Len(mlKeywordMatches) : Includes(C22_Question, mlKeywordMatches[n].keywords)
    \/ \E n \in 1..Len(nuclearKeywordMatches) :
           Includes(C22_Question, nuclearKeywordMatches[n].keywords)

\* The similarity of the question with canonical question k.
C22_Similarity(k) == calculateSimilarity(C22_Question, toLowerCase(ALL_QA_DOMAINS[k].question))

\* Similarity a is at least similarity b.
C22_AtLeast(a, b) == a.common * b.total >= b.common * a.total

\* The canonical questions of the highest similarity among those of a
\* similarity of at least 0.8.
C22_Best ==
    { k \in 1..Len(ALL_QA_DOMAINS) :
          /\ C22_AtLeast(C22_Similarity(k), similarityThreshold)
          /\ \A j \in 1..Len(ALL_QA_DOMAINS) : C22_AtLeast(C22_Similarity(k), C22_Similarity(j)) }

\* C22: for a question that holds none of the keyword substrings,
\* findPredefinedAnswer returns an answer if and only if some canonical
\* question has a similarity of at least 0.8 with it, and then the answer
\* of a canonical question of the highest similarity; otherwise null.
C22_SimilarityAtLeastThreshold ==
    (result.op = "findPredefinedAnswer" /\ ~C22_HasKeyword) =>
        IF C22_Best = {}
        THEN result.value = "null"
        ELSE \E k \in C22_Best : result.value = ALL_QA_DOMAINS[k].answer

\* The same with a similarity above 0.8 in place of at least 0.8.
C22_AboveThreshold ==
    (result.op = "findPredefinedAnswer" /\ ~C22_HasKeyword) =>
        LET above == { k \in C22_Best : ScoreAbove(C22_Similarity(k), similarityThreshold) }
        IN  IF above = {}
            THEN result.value = "null"
            ELSE \E k \in above : result.value = ALL_QA_DOMAINS[k].answer

\* An answer found by similarity.
C22_Found == result.op = "findPredefinedAnswer" /\ ~C22_HasKeyword /\ result.value # "null"

\* The assistant messages of predefined answers.
C23_Predefined ==
    { n \in 1..Len(messages) : "predefinedAnswer" \in DOMAIN messages[n] }

\* The answers of a table.
C23_Answers(qa) == { qa[k].answer : k \in 1..Len(qa) }

\* C23: the line added below a predefined answer and the document of its
\* source name the knowledge base of the table the answer is from: the ML
\* research paper for an answer of ML_RESEARCH_QA, the nuclear physics
\* paper for an answer of NUCLEAR_PHYSICS_QA.
C23_NamesTableOfAnswer ==
    \A n \in C23_Predefined :
        /\ messages[n].predefinedAnswer \in C23_Answers(ML_RESEARCH_QA) =>
               /\ messages[n].knowledgeBase = "ML Research Paper knowledge base"
               /\ messages[n].document = "ML Research Paper.pdf"
        /\ messages[n].predefinedAnswer \in C23_Answers(NUCLEAR_PHYSICS_QA) =>
               /\ messages[n].knowledgeBase = "Nuclear Physics knowledge base"
               /\ messages[n].document = "Nuclear Physics Paper.pdf"

\* No answer is under the name of the other table.
C23_NeverOtherTable ==
    \A n \in C23_Predefined :
        /\ messages[n].predefinedAnswer \in C23_Answers(ML_RESEARCH_QA) =>
               messages[n].knowledgeBase # "Nuclear Physics knowledge base"
        /\ messages[n].predefinedAnswer \in C23_Answers(NUCLEAR_PHYSICS_QA) =>
               messages[n].knowledgeBase # "ML Research Paper knowledge base"

\* The weight of the first three patterns of getContextualScore that the
\* question as it was asked, in lower case, and the content match.
C24_Due(query, content) ==
    ContextualScoreFrom(query, content, 1) - ContextualScoreFrom(query, content, 4)

\* Ten times the score of a chunk without its contextual bonus and without
\* its density bonus: the phrase, the terms and the document name.
C24_Base(queryWords, content, documentName) ==
    (IF Includes(content, Join(queryWords, << " " >>)) THEN 100 ELSE 0)
        + SumTo([n \in 1..Len(queryWords) |-> TermTenths(queryWords, n, content)],
                Len(queryWords))
        + 10 * MatchingWords(queryWords, documentName)

\* The chunk is among the results with a score that holds the bonus due.
C24_Scored(chunk, results) ==
    \E n \in 1..Len(results) :
        /\ results[n].chunk = chunk.chunk
        /\ results[n].document.id = chunk.document.id
        /\ results[n].score.points >=
               C24_Base(extractQueryTerms(toLowerCase(call.query)),
                        toLowerCase(chunk.chunk.content),
                        toLowerCase(chunk.document.name))
               + 10 * C24_Due(toLowerCase(call.query), toLowerCase(chunk.chunk.content))

\* C24: a chunk whose content matches the content side of one of the
\* patterns for 'what is'/'define'/'definition', for 'how does'/'how to'
\* and for 'why', asked with a question whose text in lower case matches
\* the query side, has the weight of the pattern in its score (and so is
\* among the results unless eight chunks stand before it).
C24_ContextualBonusGiven ==
    result.op = "EnhancedQuestionAnswering.generateAnswer" =>
        \A n \in 1..Len(ReadyChunks(call.documents)) :
            C24_Due(toLowerCase(call.query),
                    toLowerCase(ReadyChunks(call.documents)[n].chunk.content)) > 0
                => \/ C24_Scored(ReadyChunks(call.documents)[n], result.value.searchResults)
                   \/ Len(result.value.searchResults) = maxSemanticResults

\* The same for the questions whose extracted terms still match the query
\* side of the pattern.
C24_BonusOfTerms ==
    result.op = "EnhancedQuestionAnswering.generateAnswer" =>
        \A n \in 1..Len(ReadyChunks(call.documents)) :
            C24_Due(Join(extractQueryTerms(toLowerCase(call.query)), << " " >>),
                    toLowerCase(ReadyChunks(call.documents)[n].chunk.content)) > 0
                => \/ C24_Scored(ReadyChunks(call.documents)[n], result.value.searchResults)
                   \/ Len(result.value.searchResults) = maxSemanticResults

\* ------------------------------------------------------------------------
\* extractQueryTerms, applied to queries
\* ------------------------------------------------------------------------

\* Words of a query: stop words, words of one and two characters, words
\* with capital letters and with punctuation, and twelve terms in a row.
TermWords ==
    << Chars("What"), Chars("IS"), Chars("a"), Chars("Cat?"), Chars("dog-house"),
       Chars("c++"), Chars("the"), Chars("ants"), Chars("bees"), Chars("cows"),
       Chars("Deer"), Chars("eels"), Chars("fish"), Chars("gnus"), Chars("hens"),
       Chars("x_1"), Chars("jays"), Chars("kiwi"), Chars("why"), Chars("!?") >>

\* The queries: the words from place i to place j, with blanks between.
TermQueries ==
    { Join(SubSeq(TermWords, i, j), << " " >>) :
          i \in 1..Len(TermWords), j \in 0..Len(TermWords) }

TermsInit ==
    /\ EmptyStore
    /\ processed = << >>
    /\ requireDefined = FALSE
    /\ call \in { [fn |-> "extractQueryTerms", query |-> query] : query \in TermQueries }
    /\ EmptyChat
    /\ EmptyFaq
    /\ EmptyUi

ExtractQueryTerms ==
    /\ call.fn = "extractQueryTerms"
    /\ result.op = "none"
    /\ result' = [op |-> "extractQueryTerms", value |-> extractQueryTerms(call.query)]
    /\ UNCHANGED << documents, storage, tasks, nextId, processed, requireDefined, call, chatVars, faqVars, uiVars >>

TermsNext == ExtractQueryTerms

TermsSpec == TermsInit /\ [][TermsNext]_vars

\* The words of the query in lower case, punctuation taken for blanks.
C25_Words == Split(PunctuationToSpace(toLowerCase(call.query)), WsChars)

\* A word a term may be: lower case, more than two characters, no stop word.
C25_IsTerm(word) ==
    /\ \A i \in 1..Len(word) : word[i] \notin UpperChars
    /\ Len(word) > 2
    /\ word \notin stopWords

\* The terms stand among the words from place k on in the order they have.
RECURSIVE C25_InOrder(_, _, _)
C25_InOrder(terms, words, k) ==
    IF terms = << >> THEN TRUE
    ELSE IF k > Len(words) THEN FALSE
    ELSE IF words[k] = Head(terms) THEN C25_InOrder(Tail(terms), words, k + 1)
    ELSE C25_InOrder(terms, words, k + 1)

\* C25: extractQueryTerms returns between 1 and 10 terms, each in lower
\* case, longer than 2 characters and no stop word, in the order they have
\* in the query; a query without such a word gives the one term 'query'.
C25_TermsBounded ==
    result.op = "extractQueryTerms" =>
        /\ Len(result.value) >= 1
        /\ Len(result.value) <= 10
        /\ \A n \in 1..Len(result.value) : C25_IsTerm(result.value[n])
        /\ IF \E k \in 1..Len(C25_Words) : C25_IsTerm(C25_Words[k])
           THEN C25_InOrder(result.value, C25_Words, 1)
           ELSE result.value = << Chars("query") >>

\* Ten terms of a query of more than ten.
C25_Witness ==
    /\ result.op = "extractQueryTerms"
    /\ Len(result.value) = 10
    /\ Cardinality({ k \in 1..Len(C25_Words) : C25_IsTerm(C25_Words[k]) }) > 10

\* The placeholder of a query of stop words and short words.
C25_Placeholder ==
    /\ result.op = "extractQueryTerms"
    /\ Len(call.query) > 0
    /\ result.value = << Chars("query") >>

\* ------------------------------------------------------------------------
\* FAQSystem.calculateSimilarity, applied to pairs of strings
\* ------------------------------------------------------------------------

\* The largest number of words of a string compared.
MaxWords == 3

\* The strings of at most MaxWords words over three words, one blank
\* between two words; the string of no word is the empty string.
WordStrings ==
    { Join(words, << " " >>) :
          words \in UNION { [1..k -> { Chars("cats"), Chars("purr"), Chars("how") }] :
                              k \in 0..MaxWords } }

SimilarityInit ==
    /\ EmptyStore
    /\ processed = << >>
    /\ requireDefined = FALSE
    /\ call \in { [fn |-> "FAQSystem.calculateSimilarity", str1 |-> str1, str2 |-> str2] :
                      str1 \in WordStrings, str2 \in WordStrings }
    /\ EmptyChat
    /\ EmptyFaq
    /\ EmptyUi

\* calculateSimilarity(str1, str2), and calculateSimilarity(str2, str1) to
\* compare it with.
CalculateSimilarity ==
    /\ call.fn = "FAQSystem.calculateSimilarity"
    /\ result.op = "none"
    /\ result' = [op |-> "FAQSystem.calculateSimilarity",
                   value |-> FAQSystem_calculateSimilarity(call.str1, call.str2),
                   reversed |-> FAQSystem_calculateSimilarity(call.str2, call.str1)]
    /\ UNCHANGED << documents, storage, tasks, nextId, processed, requireDefined, call, chatVars, faqVars, uiVars >>

SimilarityNext == CalculateSimilarity

SimilaritySpec == SimilarityInit /\ [][SimilarityNext]_vars

\* The set of the tokens of a string between its white space.
C26_Tokens(str) == { Split(str, WsChars)[n] : n \in 1..Len(Split(str, WsChars)) }

\* The two fractions are the same number.
C26_Equal(a, b) == a.num * b.den = b.num * a.den

\* What the claim says of the similarity of the two strings of the call.
C26_Jaccard ==
    /\ C26_Equal(result.value,
                 Fraction(Cardinality(C26_Tokens(call.str1) \cap C26_Tokens(call.str2)),
                          Cardinality(C26_Tokens(call.str1) \cup C26_Tokens(call.str2))))
    /\ C26_Equal(result.value, result.reversed)
    /\ result.value.num >= 0
    /\ result.value.num <= result.value.den
    /\ (result.value.num = result.value.den)
           <=> (C26_Tokens(call.str1) = C26_Tokens(call.str2))

\* C26: calculateSimilarity(a, b) is |A n B| / |A u B| over the sets A and
\* B of the tokens of a and b: the same for (b, a), between 0 and 1, and 1
\* exactly when A = B.
C26_SimilarityIsJaccard ==
    result.op = "FAQSystem.calculateSimilarity" => C26_Jaccard

\* No token stands twice in the string.
C26_NoRepeat(str) == Cardinality(C26_Tokens(str)) = Len(Split(str, WsChars))

\* The same for two strings in which no token stands twice.
C26_JaccardWithoutRepeats ==
    (result.op = "FAQSystem.calculateSimilarity"
         /\ C26_NoRepeat(call.str1) /\ C26_NoRepeat(call.str2)) => C26_Jaccard

\* ------------------------------------------------------------------------
\* FAQSystem.getTrendingQuestions; the clock counts days here
\* ------------------------------------------------------------------------

\* The days of 7 * 24 * 60 * 60 * 1000 milliseconds.
recentDays == 7

\* The comparator of the sort of getTrendingQuestions, times Date.now():
\* its aScore is the score of b and its bScore the score of a, and it
\* returns bScore - aScore.
TrendingCompare(a, b) == a.timesAsked * a.lastAsked - b.timesAsked * b.lastAsked

\* Array.prototype.sort with that comparator: stable, a before b where the
\* comparator is negative.
RECURSIVE SortTrending(_)
SortTrending(items) ==
    IF items = << >> THEN << >>
    ELSE LET sorted == SortTrending(Tail(items))
             first == Head(items)
             \* first goes before the first item it does not come after
             k == IF \E n \in 1..Len(sorted) : TrendingCompare(first, sorted[n]) <= 0
                  THEN CHOOSE n \in 1..Len(sorted) :
                          /\ TrendingCompare(first, sorted[n]) <= 0
                          /\ \A m \in 1..(n - 1) : TrendingCompare(first, sorted[m]) > 0
                  ELSE Len(sorted) + 1
         IN  SubSeq(sorted, 1, k - 1) \o << first >> \o SubSeq(sorted, k, Len(sorted))

\* The filter of getTrendingQuestions at the given date.
RecentItems(items, date) ==
    SelectSeq(items, LAMBDA faq : faq.lastAsked >= date - recentDays)

getTrendingQuestions(items, limit, date) == Prefix(SortTrending(RecentItems(items, date)), limit)

\* The number of FAQ items asked again since they were stored, and the
\* largest limit asked for.
MaxItems == 3

\* The day of the call, counted from 1 January 1970, and the day an
\* earlier session has stored the default items.
Today == 20000
StoredDay == Today - 30

\* What has become of the first MaxItems default items since: asked last
\* today, two, seven or eight days ago, once or six times.
TrendingItems ==
    [1..MaxItems -> [asked : {1, 6},
                     lastAsked : {Today, Today - 2, Today - recentDays, Today - recentDays - 1}]]

\* The item after k more calls of trackQuestion with a question similar to
\* its own, the last of them at the given date.
RECURSIVE AskedTimes(_, _, _)
AskedTimes(faq, k, date) ==
    IF k = 0 THEN faq ELSE AskedTimes(AskedAgain(faq, date), k - 1, date)

\* The FAQSystem of a session that found the default items stored.
TrendingInit ==
    /\ EmptyStore
    /\ processed = << >>
    /\ requireDefined = FALSE
    /\ call = NoCall
    /\ EmptyChat
    /\ EmptyUi
    /\ questionHistory = << >>
    /\ now = Today
    /\ \E items \in TrendingItems :
           faqItems = [n \in 1..Len(defaultFAQs) |->
                          IF n <= MaxItems
                          THEN AskedTimes(FAQItem(n, defaultFAQs[n], StoredDay,
                                                  defaultFAQs[n].popularity),
                                          items[n].asked, items[n].lastAsked)
                          ELSE FAQItem(n, defaultFAQs[n], StoredDay, defaultFAQs[n].popularity)]

GetTrendingQuestions ==
    /\ result.op = "none"
    /\ \E limit \in 0..(MaxItems + 2) :
           result' = [op |-> "getTrendingQuestions", limit |-> limit,
                      value |-> getTrendingQuestions(faqItems, limit, now)]
    /\ UNCHANGED << documents, storage, tasks, nextId, processed, requireDefined, call, chatVars, faqVars, uiVars >>

TrendingNext == GetTrendingQuestions

TrendingSpec == TrendingInit /\ [][TrendingNext]_vars

\* The FAQ item was asked within the last 7 days.
C27_Recent(faq) == faq.lastAsked >= now - recentDays

\* The trending score of the first item is at least that of the second:
\* timesAsked * (lastAsked / now), both sides times now.
C27_AtLeast(a, b) == a.timesAsked * a.lastAsked >= b.timesAsked * b.lastAsked

\* The items among the given ones.
C27_Among(value, items) ==
    \A n \in 1..Len(value) : \E m \in 1..Len(items) : items[m] = value[n]

\* C27: getTrendingQuestions(limit) returns FAQ items asked within the
\* last 7 days only, from the highest to the lowest trending score, and
\* they are the limit items of the highest score among those.
C27_HighestTrendingFirst ==
    result.op = "getTrendingQuestions" =>
        /\ C27_Among(result.value, faqItems)
        /\ \A n \in 1..Len(result.value) : C27_Recent(result.value[n])
        /\ \A n \in 1..(Len(result.value) - 1) :
               C27_AtLeast(result.value[n], result.value[n + 1])
        /\ Len(result.value)
               = Min(result.limit, Cardinality({ m \in 1..Len(faqItems) : C27_Recent(faqItems[m]) }))
        /\ \A m \in 1..Len(faqItems) :
               (C27_Recent(faqItems[m]) /\ \A n \in 1..Len(result.value) : result.value[n] # faqItems[m])
                   => \A n \in 1..Len(result.value) : C27_AtLeast(result.value[n], faqItems[m])

\* What holds of the order: from the lowest to the highest score, the
\* limit items of the lowest score.
C27_LowestTrendingFirst ==
    result.op = "getTrendingQuestions" =>
        /\ C27_Among(result.value, faqItems)
        /\ \A n \in 1..Len(result.value) : C27_Recent(result.value[n])
        /\ \A n \in 1..(Len(result.value) - 1) :
               C27_AtLeast(result.value[n + 1], result.value[n])
        /\ Len(result.value)
               = Min(result.limit, Cardinality({ m \in 1..Len(faqItems) : C27_Recent(faqItems[m]) }))
        /\ \A m \in 1..Len(faqItems) :
               (C27_Recent(faqItems[m]) /\ \A n \in 1..Len(result.value) : result.value[n] # faqItems[m])
                   => \A n \in 1..Len(result.value) : C27_AtLeast(faqItems[m], result.value[n])

\* The status getDocuments has reported for the document of the id.
C28_Reported(list, id) == (CHOOSE d \in { list[n] : n \in 1..Len(list) } : d.id = id).status

\* C28: what getDocuments reports for a document the processor holds is
\* the status the processor has for it; a document whose processing has
\* ended is not reported as 'processing'.
C28_ReportsProcessorStatus ==
    [][List =>
           \A n \in 1..Len(documents') :
               /\ documents'[n].id \in DocIds(result'.documents)
               /\ C28_Reported(result'.documents, documents'[n].id) = documents'[n].status]_vars

\* The same for the documents that are not in the storage with a status
\* of their own.
C28_ReportsStoredStatusFirst ==
    [][List =>
           \A n \in 1..Len(documents') :
               /\ documents'[n].id \in DocIds(result'.documents)
               /\ C28_Reported(result'.documents, documents'[n].id)
                      = IF documents'[n].id \in DocIds(storage)
                        THEN getDocument(storage, documents'[n].id).status
                        ELSE documents'[n].status]_vars

\* ------------------------------------------------------------------------
\* The store over page reloads
\* ------------------------------------------------------------------------

\* The page is loaded again: the module of the processor starts with an
\* empty Map, the processFile calls under way are gone with the page, and
\* localStorage is as it was.
Reload ==
    /\ documents' = << >>
    /\ tasks' = {}
    /\ result' = NoResult
    /\ UNCHANGED << storage, nextId, processed, requireDefined, call, chatVars, faqVars, uiVars >>

ReloadInit ==
    /\ EmptyStore
    /\ processed = ProcessedDocuments
    /\ requireDefined = FALSE
    /\ call = NoCall
    /\ EmptyChat
    /\ EmptyFaq
    /\ EmptyUi

\* The uploads of a valid PDF, answered with a text or with a page list on
\* which processFile throws.
ReloadUpload == UploadDocument(SmallPdf) /\ UNCHANGED << call, chatVars, faqVars, uiVars >>

ReloadResume ==
    /\ \E task \in tasks : \E resp \in UiResponses : ProcessFileResume(task, resp)
    /\ UNCHANGED << call, chatVars, faqVars, uiVars >>

ReloadNext == ReloadUpload \/ ReloadResume \/ List \/ Delete \/ Reload

ReloadSpec == ReloadInit /\ [][ReloadNext]_vars

\* C29: deleteDocument(id) called for an id that the getDocuments call
\* before it has returned reports success and leaves the id neither in
\* the processor nor in the storage, the two places getDocuments reads, so
\* that the next getDocuments call does not return it; this across page
\* reloads and for stored documents of status 'error' and 'processing'.
C29_ListedCanBeDeleted ==
    [][\A id \in 0..(MaxDocs - 1) :
          (result.op = "getDocuments" /\ id \in DocIds(result.documents) /\ DeleteDocument(id))
              => /\ result'.success
                 /\ id \notin DocIds(documents')
                 /\ id \notin DocIds(storage')]_vars

\* The same within one page session: for the ids the processor holds.
C29_HeldCanBeDeleted ==
    [][\A id \in 0..(MaxDocs - 1) :
          (result.op = "getDocuments" /\ id \in DocIds(result.documents)
               /\ id \in DocIds(documents) /\ DeleteDocument(id))
              => /\ result'.success
                 /\ id \notin DocIds(documents')
                 /\ id \notin DocIds(storage')]_vars

\* ------------------------------------------------------------------------
\* The limits of the plan: handleUpload and handleSendMessage of a user
\* ------------------------------------------------------------------------

\* PLAN_LIMITS.free.maxDocuments
maxDocuments == 5

\* UsageTracker.updateUsage(userId, 'document') refuses the upload.
DocumentLimitReached(processedCount) == maxDocuments > 0 /\ processedCount >= maxDocuments

\* authState.user as handleUpload reads it. useCallback keeps, with its
\* dependency list [], the handleUpload of the first render of App, and
\* the authState of that render is the initial one, whose user is null.
UploadSeesUser == FALSE

\* The files of the list that the loop of handleUpload hands on: those of
\* type PDF and of at most 10 MB, as the entries of the uploads after the
\* first k of them.
RECURSIVE AcceptedUploads(_, _)
AcceptedUploads(files, k) ==
    IF files = << >> THEN << >>
    ELSE IF uploadError(Head(files)) # "none" THEN AcceptedUploads(Tail(files), k)
    ELSE << [tempId |-> -(k + 1), file |-> Head(files), at |-> "for", task |-> -1] >>
         \o AcceptedUploads(Tail(files), k + 1)

\* The largest number of files of a handleUpload call, and of files
\* handed on in all.
MaxFiles == 3
MaxHanded == 6

\* The accounting of a handleUpload call with a list of files: the one
\* call of updateUsage before the loop, and every accepted file of the
\* list handed by the loop, one after the other, to the steps that
\* handleUpload(file) of the list gives for one file.
handleUploadFiles(files) ==
    /\ Len(uploads) + Len(AcceptedUploads(files, 0)) <= MaxHanded
    /\ IF UploadSeesUser /\ DocumentLimitReached(documentsProcessed)
       THEN /\ showUpgradePrompt' = TRUE
            /\ UNCHANGED << uploads, documentsProcessed >>
       ELSE /\ documentsProcessed' = IF UploadSeesUser THEN documentsProcessed + 1
                                     ELSE documentsProcessed
            /\ uploads' = uploads \o AcceptedUploads(files, Len(uploads))
            /\ UNCHANGED showUpgradePrompt
    /\ UNCHANGED << documents, storage, tasks, nextId, result, processed, requireDefined,
                    call, user, questionsAsked, messages, pending, uiDocuments, loads, faqVars >>

\* A signed-in user of the free plan at the start of a month, or with all
\* questions of the month but one asked.
UsageInit ==
    /\ EmptyStore
    /\ processed = << >>
    /\ requireDefined = FALSE
    /\ call = NoCall
    /\ user = TRUE
    /\ questionsAsked \in {0, maxQuestions - 1}
    /\ showUpgradePrompt = FALSE
    /\ messages = << >>
    /\ pending = << >>
    /\ EmptyFaq
    /\ EmptyUi

UsageUpload ==
    \E files \in UNION { [1..k -> { SmallPdf, TextFile }] : k \in 1..MaxFiles } :
        handleUploadFiles(files)

UsageNext == UsageUpload \/ Send \/ Reply

UsageSpec == UsageInit /\ [][UsageNext]_vars

\* C30: for a signed-in user of the free plan, within one month, the
\* number of files handed to the processing is never above maxDocuments
\* and the number of questions taken is never above maxQuestions.
C30_WithinPlanLimits ==
    user => /\ Len(uploads) <= maxDocuments
            /\ questionsAsked <= maxQuestions

\* The half of the claim on the questions.
C30_QuestionsWithinLimit == user => questionsAsked <= maxQuestions

\* A question refused at the limit.
C30_QuestionRefused == user /\ questionsAsked = maxQuestions /\ showUpgradePrompt

====
